---- MODULE Spec2Model ----
(***************************************************************************)
(* The symbol-discovery and order-collection pipeline of                   *)
(* biget-futures-history:                                                  *)
(*   - the time range mapper (time window partitioner),                    *)
(*   - the symbol unifier,                                                 *)
(*   - the symbol processor (per-symbol order collector),                  *)
(*   - the result collector (aggregator),                                  *)
(*   - the symbol searcher (per-window symbol discovery),                  *)
(* each driven by a specification of its own over a shared set of          *)
(* variables.  A component that a specification does not drive stays in    *)
(* its idle state.                                                         *)
(***************************************************************************)
EXTENDS Integers, Sequences, FiniteSets, TLC

VARIABLES
    \* time range mapper / coordinator window loop
    tm_variant, end_time, lookback, window_size_ms, current_start,
    time_windows, tm_pc,
    \* remove_global_duplicates applied to an order list, once and again
    dd_in, dd_once, dd_twice, dd_pc,
    \* symbol unifier
    un_event, window_results, un_i, all_symbols, symbol_frequency,
    successful_windows, failed_windows, un_result, un_pc,
    \* symbol processor
    sp_event, sp_script, page_count, page_retries, last_end_id, all_orders,
    sp_orders, sp_calls, sp_page_calls, sp_sleeps, sp_puts, sp_pc,
    \* result collector
    rc_event, rc_combined, rc_error, rc_store, rc_response, rc_pc,
    \* what the earlier invocations of the aggregator answered
    rc_history,
    \* symbol searcher
    ss_event, ss_script, ss_page, ss_last_end_id, ss_symbols, ss_page_calls,
    ss_result, ss_pc,
    \* the searcher's answered calls, and where its cursor came from
    ss_fetched, ss_cursor_from,
    \* concurrent writers: the invocations and the log of their puts
    wr_inv, wr_puts,
    \* the object store (bus) and the wall clock, in seconds
    bus, clock

tm_vars == <<tm_variant, end_time, lookback, window_size_ms, current_start,
             time_windows, tm_pc>>
dd_vars == <<dd_in, dd_once, dd_twice, dd_pc>>
un_vars == <<un_event, window_results, un_i, all_symbols, symbol_frequency,
             successful_windows, failed_windows, un_result, un_pc>>
sp_vars == <<sp_event, sp_script, page_count, page_retries, last_end_id,
             all_orders, sp_orders, sp_calls, sp_page_calls, sp_sleeps, sp_puts,
             sp_pc>>
rc_vars ==
    <<rc_event, rc_combined, rc_error, rc_store, rc_response, rc_pc, rc_history>>
ss_vars == <<ss_event, ss_script, ss_page, ss_last_end_id, ss_symbols,
             ss_page_calls, ss_result, ss_pc, ss_fetched, ss_cursor_from>>
wr_vars == <<wr_inv, wr_puts>>
env_vars == <<bus, clock>>
vars == <<tm_vars, dd_vars, un_vars, sp_vars, rc_vars, ss_vars, wr_vars,
          env_vars>>

\* What an action of one component leaves alone.
not_tm_vars == <<dd_vars, un_vars, sp_vars, rc_vars, ss_vars, wr_vars, env_vars>>
not_dd_vars == <<tm_vars, un_vars, sp_vars, rc_vars, ss_vars, wr_vars, env_vars>>
not_un_vars == <<tm_vars, dd_vars, sp_vars, rc_vars, ss_vars, wr_vars>>
not_sp_vars == <<tm_vars, dd_vars, un_vars, rc_vars, ss_vars, wr_vars>>
not_rc_vars == <<tm_vars, dd_vars, un_vars, sp_vars, ss_vars, wr_vars>>
not_ss_vars == <<tm_vars, dd_vars, un_vars, sp_vars, rc_vars, wr_vars>>
not_wr_vars == <<tm_vars, dd_vars, un_vars, sp_vars, rc_vars, ss_vars>>

Min(a, b) == IF a <= b THEN a ELSE b

\* The sequences over S of length at most n.
SeqsUpTo(S, n) == UNION {[1..k -> S] : k \in 0..n}

(***************************************************************************)
(* Orders.  An order is a JSON object; the fields the pipeline reads are   *)
(* orderId and createTime, and processing_symbol is the tag the result     *)
(* collector writes.                                                       *)
(*   orderId: NoOrderId when the key is absent (order.get gives None),     *)
(*            EmptyOrderId for the empty string, n >= 1 for the n-th       *)
(*            identifier string.                                           *)
(*   createTime: a record [kind, val]; kind "absent" (no key), "num"       *)
(*            (a JSON number), "numstr" (a string of digits), "badstr" (a  *)
(*            string int() cannot parse) or "null" (JSON null).            *)
(***************************************************************************)
NoOrderId == 0 - 1
EmptyOrderId == 0

CtAbsent == [kind |-> "absent", val |-> 0]
CtNum(n) == [kind |-> "num", val |-> n]
CtStr(n) == [kind |-> "numstr", val |-> n]
CtBad == [kind |-> "badstr", val |-> 0]
CtNull == [kind |-> "null", val |-> 0]

NoSymbol == 0

Order(id, ct) == [orderId |-> id, createTime |-> ct, processing_symbol |-> NoSymbol]

\* Python truthiness of order.get('orderId'): None and '' are falsy.
Falsy(order_id) == order_id = NoOrderId \/ order_id = EmptyOrderId

(***************************************************************************)
(* Time range mapper: the window loop of time_range_mapper.lambda_handler  *)
(* ("mapper": while current_start < end_time) and of the coordinator's     *)
(* get_symbols_with_trades ("coordinator": while current_start <= end_time *)
(* and fewer than 12 windows).  The code fixes the lookback and the window *)
(* size; the model draws them, in abstract time units, from small sets.    *)
(***************************************************************************)
MaxLookback == 14
MaxWindowSize == 3
MaxNow == 21
max_coordinator_windows == 12

TMVariants == {"mapper", "coordinator"}

TMInit ==
    /\ tm_variant \in TMVariants
    /\ end_time \in (MaxNow - 1)..MaxNow
    /\ lookback \in 1..MaxLookback
    /\ window_size_ms \in 1..MaxWindowSize
    /\ current_start = end_time - lookback
    /\ time_windows = <<>>
    /\ tm_pc = "loop"

TMIdle ==
    /\ tm_variant = "mapper"
    /\ end_time = 0
    /\ lookback = 0
    /\ window_size_ms = 0
    /\ current_start = 0
    /\ time_windows = <<>>
    /\ tm_pc = "idle"

\* The loop condition of the window loop.
WindowLoopGuard ==
    IF tm_variant = "mapper"
    THEN current_start < end_time
    ELSE current_start <= end_time /\ Len(time_windows) < max_coordinator_windows

\* One iteration of the loop: clip the window to end_time, append it, move on.
TM_AppendWindow ==
    /\ tm_pc = "loop"
    /\ WindowLoopGuard
    /\ LET current_end == Min(current_start + window_size_ms - 1, end_time)
           window == [window_id |-> Len(time_windows) + 1,
                      start_time |-> current_start,
                      end_time |-> current_end]
       IN /\ time_windows' = Append(time_windows, window)
          /\ current_start' = current_end + 1
    /\ UNCHANGED <<tm_variant, end_time, lookback, window_size_ms, tm_pc>>
    /\ UNCHANGED not_tm_vars

\* The loop ends and the handler returns time_windows.
TM_Return ==
    /\ tm_pc = "loop"
    /\ ~WindowLoopGuard
    /\ tm_pc' = "done"
    /\ UNCHANGED <<tm_variant, end_time, lookback, window_size_ms,
                   current_start, time_windows>>
    /\ UNCHANGED not_tm_vars

TMNext == TM_AppendWindow \/ TM_Return

(***************************************************************************)
(* remove_global_duplicates (result collector).                            *)
(***************************************************************************)
\* The body of the loop of remove_global_duplicates for one order: an order
\* with an identifier not seen before is kept and its identifier recorded, an
\* order without identifier is kept, any other is dropped.
rgd_step(state, order) ==
    LET order_id == order.orderId
    IN IF Falsy(order_id)
       THEN [state EXCEPT !.unique_orders = Append(@, order)]
       ELSE IF order_id \notin state.seen_order_ids
       THEN [seen_order_ids |-> state.seen_order_ids \cup {order_id},
             unique_orders |-> Append(state.unique_orders, order)]
       ELSE state

\* The loop over order_list[lo..hi] in list order, entered in state: the
\* first half of the range, then the second half from the state the first
\* half ended in.  That state is looked at before the second half is
\* entered, so that it is computed by then and not on demand inside it; the
\* list of kept orders never shrinks.
RECURSIVE rgd_loop(_, _, _, _)
rgd_loop(order_list, lo, hi, state) ==
    IF lo > hi THEN state
    ELSE IF lo = hi THEN rgd_step(state, order_list[lo])
    ELSE LET mid == (lo + hi) \div 2
             half == rgd_loop(order_list, lo, mid, state)
         IN IF Len(half.unique_orders) >= Len(state.unique_orders)
            THEN rgd_loop(order_list, mid + 1, hi, half)
            ELSE half

\* A deduplication that removes from the list it iterates over: the element
\* after a removed duplicate is never examined.
RECURSIVE rgd_loop_in_place(_, _, _, _)
rgd_loop_in_place(order_list, i, seen_order_ids, unique_orders) ==
    IF i > Len(order_list) THEN unique_orders
    ELSE LET order == order_list[i]
             order_id == order.orderId
         IN IF Falsy(order_id)
            THEN rgd_loop_in_place(order_list, i + 1, seen_order_ids,
                                   Append(unique_orders, order))
            ELSE IF order_id \notin seen_order_ids
            THEN rgd_loop_in_place(order_list, i + 1,
                                   seen_order_ids \cup {order_id},
                                   Append(unique_orders, order))
            ELSE IF i + 1 <= Len(order_list)
            THEN rgd_loop_in_place(order_list, i + 2, seen_order_ids,
                                   Append(unique_orders, order_list[i + 1]))
            ELSE unique_orders

remove_global_duplicates_in_place(order_list) ==
    IF order_list = <<>> THEN <<>>
    ELSE rgd_loop_in_place(order_list, 1, {}, <<>>)

\* A deduplication that also keys the orders that have no identifier.
RECURSIVE rgd_loop_keyed(_, _, _, _)
rgd_loop_keyed(order_list, i, seen_order_ids, unique_orders) ==
    IF i > Len(order_list) THEN unique_orders
    ELSE LET order == order_list[i]
             order_id == order.orderId
         IN IF order_id \notin seen_order_ids
            THEN rgd_loop_keyed(order_list, i + 1,
                                seen_order_ids \cup {order_id},
                                Append(unique_orders, order))
            ELSE rgd_loop_keyed(order_list, i + 1, seen_order_ids, unique_orders)

remove_global_duplicates_keyed(order_list) ==
    IF order_list = <<>> THEN <<>>
    ELSE rgd_loop_keyed(order_list, 1, {}, <<>>)

remove_global_duplicates_none(order_list) == order_list

remove_global_duplicates(order_list) ==
    IF order_list = <<>> THEN <<>>
    ELSE rgd_loop(order_list, 1, Len(order_list),
                  [seen_order_ids |-> {}, unique_orders |-> <<>>]).unique_orders

\* The order lists the deduplication is applied to.
MaxOrders == 3
DDOrderIds == {NoOrderId, EmptyOrderId, 1, 2}
DDOrders == {Order(id, CtNum(t)) : id \in DDOrderIds, t \in {100, 200}}

DDInit ==
    /\ dd_in \in SeqsUpTo(DDOrders, MaxOrders)
    /\ dd_once = <<>>
    /\ dd_twice = <<>>
    /\ dd_pc = "input"

DDIdle ==
    /\ dd_in = <<>>
    /\ dd_once = <<>>
    /\ dd_twice = <<>>
    /\ dd_pc = "idle"

DD_Apply ==
    /\ dd_pc = "input"
    /\ dd_once' = remove_global_duplicates(dd_in)
    /\ dd_pc' = "once"
    /\ UNCHANGED <<dd_in, dd_twice>>
    /\ UNCHANGED not_dd_vars

DD_ApplyAgain ==
    /\ dd_pc = "once"
    /\ dd_twice' = remove_global_duplicates(dd_once)
    /\ dd_pc' = "twice"
    /\ UNCHANGED <<dd_in, dd_once>>
    /\ UNCHANGED not_dd_vars

DDNext == DD_Apply \/ DD_ApplyAgain

(***************************************************************************)
(* The bus (the S3 bucket): a function from keys to blobs.  A key is       *)
(* "<prefix><name>" with the name made of a symbol or an execution id and  *)
(* a timestamp; json says whether the key ends in ".json".                 *)
(***************************************************************************)
Key(prefix, symbol, exec, ts, json) ==
    [prefix |-> prefix, symbol |-> symbol, exec |-> exec, ts |-> ts, json |-> json]

Blob(kind, has_symbol, symbol, orders) ==
    [kind |-> kind, has_symbol |-> has_symbol, symbol |-> symbol, orders |-> orders]

EmptyBus == [k \in {} |-> Blob("none", FALSE, NoSymbol, <<>>)]

\* put_object: the blob at key is created or replaced.
PutObject(b, key, blob) ==
    [k \in DOMAIN b \cup {key} |-> IF k = key THEN blob ELSE b[k]]

EnvIdle ==
    /\ bus = EmptyBus
    /\ clock = 1

(***************************************************************************)
(* Symbol unifier (symbol_unifier.lambda_handler).  A symbol name is       *)
(* represented by its rank in lexicographic order, so that x < y is the    *)
(* string comparison of the names.                                         *)
(***************************************************************************)
max_symbols == 350
NumSymbols == max_symbols + 2
Symbols == 1..NumSymbols

\* statusCode of a payload that has none: payload.get('statusCode', 500).
NoStatus == 0
StatusOf(payload) == IF payload.statusCode = NoStatus THEN 500 ELSE payload.statusCode

\* A window result: shape "dict" (the payload itself), "payload" (wrapped
\* under 'Payload'), "payload_nondict" ('Payload' holds no object) or
\* "nondict" (the result is no object); symbols_null: 'symbols' is null.
WindowResult(shape, status, symbols, symbols_null) ==
    [shape |-> shape, statusCode |-> status, symbols |-> symbols,
     symbols_null |-> symbols_null]

\* The symbols 4..NumSymbols: max_symbols - 1 of them.
BulkSymbols == [i \in 1..(NumSymbols - 3) |-> i + 3]

SymbolLists == {<<1>>, <<2, 1>>, <<3, 2>>, <<3, 3>>}

SmallWindowResults ==
    {WindowResult("dict", 200, l, FALSE) : l \in SymbolLists}
    \cup {WindowResult("payload", 200, <<2>>, FALSE),
          WindowResult("dict", 500, <<1>>, FALSE),
          WindowResult("dict", NoStatus, <<2>>, FALSE),
          WindowResult("dict", 200, <<>>, TRUE),
          WindowResult("payload_nondict", 200, <<1>>, FALSE),
          WindowResult("nondict", 200, <<1>>, FALSE)}

BulkWindowResult == WindowResult("dict", 200, BulkSymbols, FALSE)

MaxWindows == 2

\* The event: kind "list" ('window_results' is a non-empty list), "empty"
\* ('window_results' is an empty list), "single_key" (no 'window_results',
\* one key, holding a list) or "invalid" (any other object).  The lists are
\* the short lists of small window results and the pairs that hold a window
\* with max_symbols - 1 symbols.
UNEvents ==
    {[kind |-> "list", results |-> r] :
        r \in SeqsUpTo(SmallWindowResults, MaxWindows) \ {<<>>}}
    \cup {[kind |-> "list", results |-> <<BulkWindowResult, r>>] :
             r \in SmallWindowResults \cup {BulkWindowResult}}
    \cup {[kind |-> "list", results |-> <<r, BulkWindowResult>>] :
             r \in SmallWindowResults}
    \cup {[kind |-> "single_key", results |-> <<r>>] : r \in SmallWindowResults}
    \cup {[kind |-> "empty", results |-> <<>>],
          [kind |-> "invalid", results |-> <<>>]}

\* Counter lookup: a symbol never counted has frequency 0.
Frequency(freq, symbol) == IF symbol \in DOMAIN freq THEN freq[symbol] ELSE 0

\* How many times the list symbols holds x.
Occurrences(symbols, x) == Cardinality({k \in DOMAIN symbols : symbols[k] = x})

\* The counting loop, were it to count only the symbols of the window that
\* arrives first.
count_symbols_first_window(symbols, seen, freq) ==
    IF seen = {}
    THEN [all_symbols |-> {symbols[k] : k \in DOMAIN symbols},
          symbol_frequency |->
              [x \in {symbols[k] : k \in DOMAIN symbols} |->
                  Cardinality({k \in DOMAIN symbols : symbols[k] = x})]]
    ELSE [all_symbols |-> seen, symbol_frequency |-> freq]

\* for symbol in symbols: all_symbols.add(symbol); symbol_frequency[symbol] += 1
\* The loop adds 1 per occurrence, so each symbol gains its occurrences.
count_symbols(symbols, seen, freq) ==
    LET listed == {symbols[k] : k \in DOMAIN symbols}
    IN [all_symbols |-> seen \cup listed,
        symbol_frequency |->
            [x \in DOMAIN freq \cup listed |->
                Frequency(freq, x) + Occurrences(symbols, x)]]

\* The largest count in the Counter (0 when it is empty).
MaxFrequency(freq) ==
    IF DOMAIN freq = {} THEN 0
    ELSE CHOOSE f \in {freq[x] : x \in DOMAIN freq} :
            \A x \in DOMAIN freq : freq[x] <= f

\* The listed symbols with the frequencies f, f-1, .. 1 taken the wrong way
\* round: least frequent first.
RECURSIVE by_frequency_ascending(_, _, _)
by_frequency_ascending(listed, freq, f) ==
    IF f < 1 THEN <<>>
    ELSE by_frequency_ascending(listed, freq, f - 1)
         \o SelectSeq(listed, LAMBDA x : Frequency(freq, x) = f)

\* The listed symbols grouped by frequency f, f-1, .. 1, each group in the
\* order of the list: the first component, -symbol_frequency[x], of the key.
RECURSIVE by_frequency(_, _, _)
by_frequency(listed, freq, f) ==
    IF f < 1 THEN <<>>
    ELSE SelectSeq(listed, LAMBDA x : Frequency(freq, x) = f)
         \o by_frequency(listed, freq, f - 1)

\* sorted(all_symbols, key=lambda x: (-symbol_frequency[x], x)): the keys are
\* pairwise different, so the result is the symbols in ascending order of
\* name (second component) regrouped, stably, by descending frequency.
sorted_symbols(seen, freq) ==
    by_frequency(SelectSeq([i \in 1..NumSymbols |-> i], LAMBDA x : x \in seen),
                 freq, MaxFrequency(freq))

\* sorted_symbols[:max_symbols] without the slice.
final_symbols_uncapped(sorted) == sorted

\* sorted_symbols[:max_symbols]
final_symbols(sorted) == SubSeq(sorted, 1, Min(Len(sorted), max_symbols))

\* 'truncated' computed with >= in place of >.
truncated_flag_inclusive(total_unique_symbols) == total_unique_symbols >= max_symbols

\* 'truncated': total_unique_symbols > max_symbols
truncated_flag(total_unique_symbols) == total_unique_symbols > max_symbols

UNResponse(status, symbols, total, succ, failed, truncated) ==
    [statusCode |-> status, symbols |-> symbols, total_unique_symbols |-> total,
     processing_symbols_count |-> Len(symbols), successful_windows |-> succ,
     failed_windows |-> failed, truncated |-> truncated]

NoResponse == UNResponse(0, <<>>, 0, 0, 0, FALSE)
EmptyFrequency == [x \in {} |-> 0]

\* The symbols and frequencies after "for result in window_results" has run
\* over results[1..i]: only an object with status 200 whose symbols can be
\* iterated adds to them.
RECURSIVE unify_windows(_, _)
unify_windows(results, i) ==
    IF i = 0 THEN [all_symbols |-> {}, symbol_frequency |-> EmptyFrequency]
    ELSE LET before == unify_windows(results, i - 1)
             result == results[i]
         IN IF /\ result.shape \in {"dict", "payload"}
               /\ StatusOf(result) = 200
               /\ ~result.symbols_null
            THEN count_symbols(result.symbols, before.all_symbols,
                               before.symbol_frequency)
            ELSE before

\* The 'symbols' of the response for the window results: ranked and capped.
unified_symbols(results) ==
    LET unified == unify_windows(results, Len(results))
    IN final_symbols(sorted_symbols(unified.all_symbols,
                                    unified.symbol_frequency))

UNInit ==
    /\ un_event \in UNEvents
    /\ window_results = <<>>
    /\ un_i = 0
    /\ all_symbols = {}
    /\ symbol_frequency = EmptyFrequency
    /\ successful_windows = 0
    /\ failed_windows = 0
    /\ un_result = NoResponse
    /\ un_pc = "start"

UNIdle ==
    /\ un_event = [kind |-> "invalid", results |-> <<>>]
    /\ window_results = <<>>
    /\ un_i = 0
    /\ all_symbols = {}
    /\ symbol_frequency = EmptyFrequency
    /\ successful_windows = 0
    /\ failed_windows = 0
    /\ un_result = NoResponse
    /\ un_pc = "idle"

\* The handler finds the list of window results in the event, or answers 500.
UN_Start ==
    /\ un_pc = "start"
    /\ IF un_event.kind = "invalid"
       THEN /\ un_result' = UNResponse(500, <<>>, 0, 0, 0, FALSE)
            /\ un_pc' = "done"
            /\ UNCHANGED <<window_results, un_i>>
       ELSE /\ window_results' = un_event.results
            /\ un_i' = 1
            /\ un_pc' = "loop"
            /\ UNCHANGED un_result
    /\ UNCHANGED <<un_event, all_symbols, symbol_frequency, successful_windows,
                   failed_windows>>
    /\ UNCHANGED <<not_un_vars, env_vars>>

\* One iteration of "for result in window_results".
UN_Window ==
    /\ un_pc = "loop"
    /\ un_i <= Len(window_results)
    /\ LET result == window_results[un_i]
       IN CASE result.shape = "nondict" ->
                 \* isinstance(result, dict) fails: the result is passed over
                 UNCHANGED <<all_symbols, symbol_frequency, successful_windows,
                             failed_windows>>
            [] result.shape = "payload_nondict" ->
                 \* payload.get raises: except branch
                 /\ failed_windows' = failed_windows + 1
                 /\ UNCHANGED <<all_symbols, symbol_frequency, successful_windows>>
            [] OTHER ->
                 IF StatusOf(result) = 200
                 THEN /\ successful_windows' = successful_windows + 1
                      /\ IF result.symbols_null
                         THEN \* iterating None raises: except branch
                              /\ failed_windows' = failed_windows + 1
                              /\ UNCHANGED <<all_symbols, symbol_frequency>>
                         ELSE LET counted == count_symbols(result.symbols,
                                                all_symbols, symbol_frequency)
                              IN /\ all_symbols' = counted.all_symbols
                                 /\ symbol_frequency' = counted.symbol_frequency
                                 /\ UNCHANGED failed_windows
                 ELSE /\ failed_windows' = failed_windows + 1
                      /\ UNCHANGED <<all_symbols, symbol_frequency,
                                     successful_windows>>
    /\ un_i' = un_i + 1
    /\ UNCHANGED <<un_event, window_results, un_result, un_pc>>
    /\ UNCHANGED <<not_un_vars, env_vars>>

\* After the loop: rank, cap, build the response, save the statistics to the
\* bus (skipped without a bucket; a failed put is swallowed).
UN_Finish ==
    /\ un_pc = "loop"
    /\ un_i > Len(window_results)
    /\ LET sorted == sorted_symbols(all_symbols, symbol_frequency)
           total_unique_symbols == Cardinality(all_symbols)
       IN un_result' = UNResponse(200, final_symbols(sorted), total_unique_symbols,
                           successful_windows, failed_windows,
                           truncated_flag(total_unique_symbols))
    /\ \E stats \in {"no_bucket", "put_ok", "put_fails"} :
          bus' = IF stats = "put_ok"
                 THEN PutObject(bus,
                         Key("symbol_discovery_stats/", NoSymbol, "symbol_stats",
                             clock, TRUE),
                         Blob("stats", FALSE, NoSymbol, <<>>))
                 ELSE bus
    /\ un_pc' = "done"
    /\ UNCHANGED <<un_event, window_results, un_i, all_symbols, symbol_frequency,
                   successful_windows, failed_windows, clock>>
    /\ UNCHANGED not_un_vars

UNNext == UN_Start \/ UN_Window \/ UN_Finish

(***************************************************************************)
(* Symbol processor (symbol_processor/handler.py): lambda_handler,         *)
(* get_all_orders_for_symbol and store_orders_in_s3.                       *)
(*                                                                         *)
(* The exchange adapter follows a script drawn at the start:               *)
(*   total      the pages the exchange holds for the symbol; page p holds  *)
(*              one order, its endId is p and nextFlag is p < total (with  *)
(*              total = 0 the first page is empty and signals no more);    *)
(*   rl         the rate-limit errors raised before the answer to a page;  *)
(*   rl_from    the first page (1-based) on which they are raised;         *)
(*   fault      what the answer to page fault_page is instead of the data: *)
(*              "delisted", "rate_and_delisted" (a message holding both    *)
(*              markers), "other" (any other exception), "empty" (a falsy  *)
(*              response), "nodata" (a response without 'data'), or        *)
(*              "none".                                                    *)
(***************************************************************************)
max_pages == 300
max_rate_limit_retries == 5

SPScript(total, rl, rl_from, fault, fault_page) ==
    [total |-> total, rl |-> rl, rl_from |-> rl_from, fault |-> fault,
     fault_page |-> fault_page]

SPFaults == {"delisted", "rate_and_delisted", "other", "empty", "nodata"}
MaxShortPages == 3
MaxFaultPage == 2

\* Short histories, with every combination of rate limiting and fault, and
\* histories as long as the page ceiling and one page longer.
SPScripts ==
    {SPScript(t, r, f, "none", 1) :
        t \in 0..MaxShortPages,
        r \in {0, 1, max_rate_limit_retries, max_rate_limit_retries + 1},
        f \in 1..2}
    \cup {SPScript(t, r, 1, k, p) :
        t \in 0..MaxShortPages, r \in {0, 1}, k \in SPFaults,
        p \in 1..MaxFaultPage}
    \cup {SPScript(t, r, 1, "none", 1) :
        t \in {max_pages, max_pages + 1}, r \in {0, max_rate_limit_retries}}
    \cup {SPScript(max_pages + 1, 0, 1, k, 2) : k \in {"empty", "other"}}

\* The event and environment of an invocation.
SPEvent(symbol, credentials) == [symbol |-> symbol, credentials |-> credentials]

\* What the adapter does on the call for the page numbered page (1-based)
\* after retries rate-limit errors on that page.
AdapterAnswer(script, page, retries) ==
    IF page >= script.rl_from /\ retries < script.rl THEN "rate_limit"
    ELSE IF script.fault # "none" /\ page = script.fault_page THEN script.fault
    ELSE "page"

\* The exception handler's tests on str(api_error).lower(), in its order:
\* '40309' / 'removed' first, then '429' / 'too many requests' / 'rate limit'.
ErrorClass(answer) ==
    CASE answer \in {"delisted", "rate_and_delisted"} -> "discontinued"
      [] answer = "rate_limit" -> "rate_limit"
      [] OTHER -> "fatal"

\* The data of the page that follows cursor (lastEndId; 0 is '').
PageOrders(script, cursor) ==
    IF cursor < script.total
    THEN <<Order(cursor + 1, CtNum(cursor + 1))>>
    ELSE <<>>
\* A cursor that is never moved.
PageEndId_stale(script, cursor) == cursor
PageEndId(script, cursor) == IF cursor < script.total THEN cursor + 1 ELSE cursor
PageNextFlag(script, cursor) == cursor + 1 < script.total

\* After a rate-limit error: retry only while fewer than the ceiling.
MayRetry_strict(retries) == retries < max_rate_limit_retries

\* if page_retries <= max_rate_limit_retries: sleep and retry, else raise
MayRetry(retries) == retries <= max_rate_limit_retries

SPInit ==
    /\ \/ /\ sp_event = SPEvent(1, TRUE)
          /\ sp_script \in SPScripts
       \/ /\ sp_event \in {SPEvent(NoSymbol, TRUE), SPEvent(1, FALSE)}
          /\ sp_script = SPScript(0, 0, 1, "none", 1)
    /\ page_count = 0
    /\ page_retries = 0
    /\ last_end_id = 0
    /\ all_orders = <<>>
    /\ sp_orders = <<>>
    /\ sp_calls = 0
    /\ sp_page_calls = 0
    /\ sp_sleeps = 0
    /\ sp_puts = 0
    /\ sp_pc = "start"

SPIdle ==
    /\ sp_event = SPEvent(NoSymbol, FALSE)
    /\ sp_script = SPScript(0, 0, 1, "none", 1)
    /\ page_count = 0
    /\ page_retries = 0
    /\ last_end_id = 0
    /\ all_orders = <<>>
    /\ sp_orders = <<>>
    /\ sp_calls = 0
    /\ sp_page_calls = 0
    /\ sp_sleeps = 0
    /\ sp_puts = 0
    /\ sp_pc = "idle"

\* lambda_handler up to the call of get_all_orders_for_symbol: without a
\* symbol or without credentials it returns {} at once.
SP_Start ==
    /\ sp_pc = "start"
    /\ sp_pc' = IF sp_event.symbol = NoSymbol \/ ~sp_event.credentials
                THEN "returned" ELSE "paging"
    /\ UNCHANGED <<sp_event, sp_script, page_count, page_retries, last_end_id,
                   all_orders, sp_orders, sp_calls, sp_page_calls, sp_sleeps,
                   sp_puts>>
    /\ UNCHANGED <<not_sp_vars, env_vars>>

\* A loop that fails the invocation when the page ceiling is reached.
SPNextPage_raising(orders) ==
    /\ page_count' = page_count + 1
    /\ page_retries' = 0
    /\ sp_page_calls' = 0
    /\ UNCHANGED sp_orders
    /\ sp_pc' = IF page_count + 1 < max_pages THEN "paging" ELSE "raised"

\* A retry counter kept from one page to the next.
page_retries_carried(retries) == retries

\* page_retries = 0  (first statement of the outer loop's body)
page_retries_for_page(retries) == 0

\* "page_count += 1" and the test of the outer loop: the next page starts
\* with page_retries = 0, or the loop ends at the ceiling and the function
\* returns all_orders (orders stands for the value of all_orders by then).
SPNextPage(orders) ==
    /\ page_count' = page_count + 1
    /\ page_retries' = page_retries_for_page(page_retries)
    /\ sp_page_calls' = 0
    /\ IF page_count + 1 < max_pages
       THEN sp_pc' = "paging" /\ UNCHANGED sp_orders
       ELSE sp_pc' = "collected" /\ sp_orders' = orders

\* A call that returns a page: the orders are appended, the cursor moves to
\* endId, and without nextFlag the function returns all_orders.
SP_Page ==
    /\ sp_pc = "paging"
    /\ AdapterAnswer(sp_script, page_count + 1, page_retries) = "page"
    /\ sp_calls' = sp_calls + 1
    /\ LET orders == PageOrders(sp_script, last_end_id)
           next_flag == PageNextFlag(sp_script, last_end_id)
       IN /\ all_orders' = all_orders \o orders
          /\ last_end_id' = PageEndId(sp_script, last_end_id)
          /\ IF ~next_flag
             THEN /\ sp_pc' = "collected"
                  /\ sp_orders' = all_orders \o orders
                  /\ sp_page_calls' = sp_page_calls + 1
                  /\ UNCHANGED <<page_count, page_retries>>
             ELSE SPNextPage(all_orders \o orders)
    /\ UNCHANGED <<sp_event, sp_script, sp_sleeps, sp_puts>>
    /\ UNCHANGED <<not_sp_vars, env_vars>>

\* A falsy response or one without 'data': "break" leaves the retry loop,
\* the page counter moves on and the cursor stays.
SP_Malformed ==
    /\ sp_pc = "paging"
    /\ AdapterAnswer(sp_script, page_count + 1, page_retries) \in {"empty", "nodata"}
    /\ sp_calls' = sp_calls + 1
    /\ SPNextPage(all_orders)
    /\ UNCHANGED <<sp_event, sp_script, last_end_id, all_orders, sp_sleeps, sp_puts>>
    /\ UNCHANGED <<not_sp_vars, env_vars>>

\* The call raises a rate-limit error: back off and retry the same page, or
\* raise once the retries are exhausted.
SP_RateLimited ==
    /\ sp_pc = "paging"
    /\ ErrorClass(AdapterAnswer(sp_script, page_count + 1, page_retries)) = "rate_limit"
    /\ AdapterAnswer(sp_script, page_count + 1, page_retries) = "rate_limit"
    /\ sp_calls' = sp_calls + 1
    /\ sp_page_calls' = sp_page_calls + 1
    /\ page_retries' = page_retries + 1
    /\ IF MayRetry(page_retries + 1)
       THEN sp_sleeps' = sp_sleeps + 1 /\ sp_pc' = "paging"
       ELSE sp_pc' = "raised" /\ UNCHANGED sp_sleeps
    /\ UNCHANGED <<sp_event, sp_script, page_count, last_end_id, all_orders,
                   sp_orders, sp_puts>>
    /\ UNCHANGED <<not_sp_vars, env_vars>>

\* A discontinued symbol answered with the orders of the pages fetched so far.
discontinued_orders_partial(orders) == orders

\* return []  (for a discontinued symbol, whatever was fetched before)
discontinued_orders(orders) == <<>>

\* The call raises an error whose message holds '40309' or 'removed': the
\* function returns [].
SP_Discontinued ==
    /\ sp_pc = "paging"
    /\ AdapterAnswer(sp_script, page_count + 1, page_retries)
          \in {"delisted", "rate_and_delisted"}
    /\ ErrorClass(AdapterAnswer(sp_script, page_count + 1, page_retries))
          = "discontinued"
    /\ sp_calls' = sp_calls + 1
    /\ sp_page_calls' = sp_page_calls + 1
    /\ sp_orders' = discontinued_orders(all_orders)
    /\ sp_pc' = "collected"
    /\ UNCHANGED <<sp_event, sp_script, page_count, page_retries, last_end_id,
                   all_orders, sp_sleeps, sp_puts>>
    /\ UNCHANGED <<not_sp_vars, env_vars>>

\* The call raises any other error: it is raised again, through
\* lambda_handler, to the scheduler.
SP_OtherError ==
    /\ sp_pc = "paging"
    /\ AdapterAnswer(sp_script, page_count + 1, page_retries) = "other"
    /\ ErrorClass(AdapterAnswer(sp_script, page_count + 1, page_retries)) = "fatal"
    /\ sp_calls' = sp_calls + 1
    /\ sp_page_calls' = sp_page_calls + 1
    /\ sp_pc' = "raised"
    /\ UNCHANGED <<sp_event, sp_script, page_count, page_retries, last_end_id,
                   all_orders, sp_orders, sp_sleeps, sp_puts>>
    /\ UNCHANGED <<not_sp_vars, env_vars>>

\* The key store_orders_in_s3 writes: symbol_results/{symbol}_{now}.json
PartialKey(symbol, now) == Key("symbol_results/", symbol, "", now, TRUE)

\* A handler that stores whatever the collection returned.
should_store_always(orders) == TRUE

\* if orders:  (an empty list is not stored)
should_store(orders) == orders # <<>>

\* lambda_handler after the collection: a non-empty order list is put on the
\* bus (store_orders_in_s3 swallows a failed put), and {} is returned.
SP_Store ==
    /\ sp_pc = "collected"
    /\ IF should_store(sp_orders)
       THEN /\ sp_puts' = sp_puts + 1
            /\ \E put_ok \in BOOLEAN :
                  bus' = IF put_ok
                         THEN PutObject(bus, PartialKey(sp_event.symbol, clock),
                                        Blob("orders", FALSE, NoSymbol, sp_orders))
                         ELSE bus
       ELSE UNCHANGED <<sp_puts, bus>>
    /\ sp_pc' = "returned"
    /\ UNCHANGED <<sp_event, sp_script, page_count, page_retries, last_end_id,
                   all_orders, sp_orders, sp_calls, sp_page_calls, sp_sleeps,
                   clock>>
    /\ UNCHANGED not_sp_vars

SPNext ==
    \/ SP_Start
    \/ SP_Page
    \/ SP_Malformed
    \/ SP_RateLimited
    \/ SP_Discontinued
    \/ SP_OtherError
    \/ SP_Store

(***************************************************************************)
(* Result collector (result_collector/handler.py): lambda_handler,         *)
(* collect_results_from_s3, combine_and_sort_orders, load_orders_from_s3   *)
(* and store_result_in_s3.                                                 *)
(***************************************************************************)
\* data.get('symbol', 'unknown') / payload.get('symbol', 'unknown')
UnknownSymbol == 0 - 1

\* The orders of an inline response are cut to this many.
inline_limit == 50

\* list_objects_v2 returns at most this many keys in one call.
list_max_keys == 1000

\* int(x.get('createTime', 0)) raises on a string that is no integer
\* literal and on null.
CreateTimeRaises(order) == order.createTime.kind \in {"badstr", "null"}

\* int(x.get('createTime', 0)) where it does not raise: 0 without the key.
CreateTimeKey(order) ==
    IF order.createTime.kind = "absent" THEN 0 ELSE order.createTime.val

\* The comparison of an ascending sort: the smaller key first.
SortsBefore_ascending(key_a, key_b) == key_a < key_b

\* The comparison of sort(reverse=True): the greater key first.
SortsBefore(key_a, key_b) == key_a > key_b

\* all_orders.sort(key=lambda x: int(x.get('createTime', 0)), reverse=True)
\* where no key raises.  The keys are computed once, as a tuple.  The sort
\* is stable: an order comes after those whose key sorts before its own and
\* after the earlier ones whose key does not sort after.
sort_orders(orders) ==
    LET n == Len(orders)
        key == <<>> \o [i \in 1..n |-> CreateTimeKey(orders[i])]
        ahead == <<>> \o [i \in 1..n |->
                    Cardinality({j \in 1..n :
                       \/ SortsBefore(key[j], key[i])
                       \/ ~SortsBefore(key[i], key[j]) /\ j < i})]
    IN [r \in 1..n |-> orders[CHOOSE i \in 1..n : ahead[i] = r - 1]]

\* The sort raises when the key of some order raises.
SortRaises(orders) == \E i \in 1..Len(orders) : CreateTimeRaises(orders[i])

\* order['processing_symbol'] = symbol, for every order of the list.
Tagged(orders, symbol) ==
    [i \in 1..Len(orders) |-> [orders[i] EXCEPT !.processing_symbol = symbol]]

\* The order of two keys in a listing: by name, then timestamp, a key
\* without the .json ending before the one with it.
KeyBefore(k1, k2) ==
    \/ k1.symbol < k2.symbol
    \/ k1.symbol = k2.symbol /\ k1.ts < k2.ts
    \/ k1.symbol = k2.symbol /\ k1.ts = k2.ts /\ ~k1.json /\ k2.json

\* list_objects_v2(Prefix=prefix)['Contents']: the keys under the prefix, in
\* key order, the first list_max_keys of them.
ListObjectsV2(b, prefix) ==
    LET under == {k \in DOMAIN b : k.prefix = prefix}
        before == [k \in under |->
                     Cardinality({o \in under : KeyBefore(o, k)})] @@ <<>>
        listed == Min(Cardinality(under), list_max_keys)
    IN <<>> \o [i \in 1..listed |-> CHOOSE k \in under : before[k] = i - 1]

\* get_object and json.loads succeed on this key.
Readable(b, key, failing) ==
    key \in DOMAIN b /\ key \notin failing /\ b[key].kind = "orders"

\* The loop body, were a file that cannot be read to end the collection: what
\* was gathered so far is dropped.
collect_file_aborting(acc, s3_key, b, failing) ==
    IF ~s3_key.json THEN acc
    ELSE IF ~Readable(b, s3_key, failing)
    THEN [acc EXCEPT !.all_orders = <<>>,
                     !.failed = @ + 1,
                     !.failed_symbols = Append(@, s3_key)]
    ELSE [acc EXCEPT !.all_orders = @ \o Tagged(b[s3_key].orders, UnknownSymbol),
                     !.successful = @ + 1]

\* The body of the loop over response['Contents'] of collect_results_from_s3
\* for one key: a key without the .json ending is passed over, a file that
\* cannot be read or parsed is recorded as failed, the orders of any other
\* are tagged and appended.
collect_file(acc, s3_key, b, failing) ==
    IF ~s3_key.json THEN acc
    ELSE IF ~Readable(b, s3_key, failing)
    THEN [acc EXCEPT !.failed = @ + 1,
                     !.failed_symbols = Append(@, s3_key)]
    ELSE LET data == b[s3_key]
             symbol == IF data.has_symbol THEN data.symbol ELSE UnknownSymbol
         IN [acc EXCEPT !.all_orders = @ \o Tagged(data.orders, symbol),
                        !.successful = @ + 1]

\* The loop over listed[lo..hi] in list order, entered with acc: the first
\* half of the range, then the second half from what the first half
\* gathered (looked at before the second half is entered, so that it is
\* computed by then).
RECURSIVE collect_range(_, _, _, _, _, _)
collect_range(listed, lo, hi, b, failing, acc) ==
    IF lo > hi THEN acc
    ELSE IF lo = hi THEN collect_file(acc, listed[lo], b, failing)
    ELSE LET mid == (lo + hi) \div 2
             half == collect_range(listed, lo, mid, b, failing, acc)
         IN IF half.successful + half.failed >= acc.successful + acc.failed
            THEN collect_range(listed, mid + 1, hi, b, failing, half)
            ELSE half

\* The loop over response['Contents'] from its i-th key on.
collect_files(listed, i, b, failing, acc) ==
    collect_range(listed, i, Len(listed), b, failing, acc)

\* A result of the legacy event: shape "dict", "payload" (under 'Payload')
\* or "nondict"; the orders are inline, or on the bus under s3_key when
\* stored_in_s3 (has_ref: the payload names both key and bucket).
LegacyResult(shape, symbol, status, stored_in_s3, has_ref, s3_key, orders) ==
    [shape |-> shape, symbol |-> symbol, statusCode |-> status,
     stored_in_s3 |-> stored_in_s3, has_ref |-> has_ref, s3_key |-> s3_key,
     orders |-> orders]

\* load_orders_from_s3: the orders of the blob, [] when anything fails.
load_orders_from_s3(b, s3_key, failing) ==
    IF Readable(b, s3_key, failing) THEN b[s3_key].orders ELSE <<>>

\* The loop over parallel_results of combine_and_sort_orders.
RECURSIVE combine_results(_, _, _, _, _)
combine_results(results, i, b, failing, acc) ==
    IF i > Len(results) THEN acc
    ELSE LET payload == results[i]
         IN IF payload.shape = "nondict"
            THEN combine_results(results, i + 1, b, failing,
                     [acc EXCEPT !.failed = @ + 1,
                                 !.failed_symbols = Append(@, UnknownSymbol)])
            ELSE IF payload.statusCode # 200
            THEN combine_results(results, i + 1, b, failing,
                     [acc EXCEPT !.failed = @ + 1,
                                 !.failed_symbols = Append(@, payload.symbol)])
            ELSE LET orders ==
                        IF payload.stored_in_s3
                        THEN IF payload.has_ref
                             THEN load_orders_from_s3(b, payload.s3_key, failing)
                             ELSE <<>>
                        ELSE payload.orders
                 IN combine_results(results, i + 1, b, failing,
                        [acc EXCEPT !.all_orders = @ \o Tagged(orders, payload.symbol),
                                    !.successful = @ + 1])

NoFiles ==
    [all_orders |-> <<>>, successful |-> 0, failed |-> 0, failed_symbols |-> <<>>]

\* The result of collect_results_from_s3 / combine_and_sort_orders.
Combined(orders, successful, failed, failed_symbols) ==
    [orders |-> orders, total_orders |-> Len(orders),
     symbols_processed |-> successful, symbols_failed |-> failed,
     failed_symbols |-> failed_symbols]

NoCombined == Combined(<<>>, 0, 0, <<>>)

\* The key of the merged artifact, were it put next to the partial results.
MergedKey_among_partials(execution_id, now) ==
    Key("symbol_results/", NoSymbol, execution_id, now, TRUE)

\* The key store_result_in_s3 writes: results/{now}_{execution_id}.json, the
\* execution id being the part of the ARN after its last ':'.
MergedKey(execution_id, now) == Key("results/", NoSymbol, execution_id, now, TRUE)
NoKey == Key("", NoSymbol, "", 0, FALSE)

\* What store_result_in_s3 does to the bus on a successful put, were it to
\* clear the earlier merged artifacts first.
StoreMerged_replacing(b, key, orders) ==
    PutObject([k \in {x \in DOMAIN b : x.prefix # "results/"} |-> b[k]], key,
              Blob("orders", FALSE, NoSymbol, orders))

\* What store_result_in_s3 does to the bus on a successful put.
StoreMerged(b, key, orders) ==
    PutObject(b, key, Blob("orders", FALSE, NoSymbol, orders))

\* combined_result['orders'][:50] if there are more than 50, else all.
truncated_orders(orders) ==
    IF Len(orders) > inline_limit THEN SubSeq(orders, 1, inline_limit) ELSE orders

\* The flag set whenever the fallback is taken.
orders_truncated_always(orders) == TRUE

\* 'orders_truncated': len(combined_result['orders']) > 50
orders_truncated(orders) == Len(orders) > inline_limit

RCResponse(status, message, total, ok, failed, orders, cut, fallback, key) ==
    [statusCode |-> status, message |-> message, total_orders |-> total,
     symbols_processed |-> ok, symbols_failed |-> failed,
     orders |-> orders, orders_truncated |-> cut,
     s3_fallback_failed |-> fallback, s3_key |-> key]

NoRCResponse == RCResponse(0, "", 0, 0, 0, <<>>, FALSE, FALSE, NoKey)

\* ---- the inputs of the result collector --------------------------------
OrderA == Order(1, CtNum(100))
OrderB == Order(2, CtNum(200))
OrderX == Order(3, CtNum(50))
OrderA2 == Order(1, CtNum(200))
OrderNoId == Order(NoOrderId, CtNum(100))
OrderEmptyId == Order(EmptyOrderId, CtAbsent)
OrderNoTime == Order(2, CtAbsent)
OrderStrTime == Order(2, CtStr(200))
OrderBadTime == Order(3, CtBad)
OrderNullTime == Order(3, CtNull)

\* n orders with identifiers of their own, oldest first.
BulkOrders(n) == [i \in 1..n |-> Order(10 + i, CtNum(1000 + i))]

RCOrderLists ==
    {<<>>, <<OrderA>>, <<OrderB>>, <<OrderX>>, <<OrderA, OrderB>>,
     <<OrderX, OrderA>>, <<OrderA2>>, <<OrderNoId, OrderEmptyId>>,
     <<OrderNoTime, OrderA>>, <<OrderStrTime, OrderX>>, <<OrderBadTime>>,
     <<OrderB, OrderNullTime>>,
     BulkOrders(inline_limit - 1), BulkOrders(inline_limit)}

\* What the bus holds under one partial-result key: nothing, an order file,
\* or bytes that are no JSON.
NoFile == [present |-> FALSE, kind |-> "orders", orders |-> <<>>]
RCFiles ==
    {NoFile, [present |-> TRUE, kind |-> "garbage", orders |-> <<>>]}
    \cup {[present |-> TRUE, kind |-> "orders", orders |-> l] : l \in RCOrderLists}

OldMergedKey == MergedKey("old", 0)
OtherKey == Key("symbol_discovery_stats/", NoSymbol, "symbol_stats", 0, TRUE)
FolderKey == Key("symbol_results/", NoSymbol, "", 0, FALSE)

\* A bus with the partial results f1 (first symbol) and f2 (second symbol),
\* an earlier merged artifact, a statistics blob and the folder marker.
BusWith(f1, f2) ==
    LET fixed == {OldMergedKey, OtherKey, FolderKey}
        keys == fixed \cup (IF f1.present THEN {PartialKey(1, 1)} ELSE {})
                      \cup (IF f2.present THEN {PartialKey(2, 1)} ELSE {})
    IN [k \in keys |->
          IF k = PartialKey(1, 1) THEN Blob(f1.kind, FALSE, NoSymbol, f1.orders)
          ELSE IF k = PartialKey(2, 1) THEN Blob(f2.kind, FALSE, NoSymbol, f2.orders)
          ELSE IF k = OldMergedKey THEN Blob("orders", FALSE, NoSymbol, <<OrderX>>)
          ELSE Blob("none", FALSE, NoSymbol, <<>>)]

\* The bus b after a later invocation of the collector for the first symbol
\* has left its own partial result f next to the earlier ones.
RetriedKey == PartialKey(1, 2)
BusRetried(b, f) ==
    [k \in DOMAIN b \cup {RetriedKey} |->
       IF k = RetriedKey THEN Blob(f.kind, FALSE, NoSymbol, f.orders) ELSE b[k]]

\* The partial results of a symbol that was collected more than once.
RetriedOrderLists ==
    {<<OrderA>>, <<OrderX, OrderA>>, <<OrderA, OrderB>>, <<OrderA2>>,
     <<OrderNoId, OrderEmptyId>>}
RetriedFiles ==
    {[present |-> TRUE, kind |-> "orders", orders |-> l] : l \in RetriedOrderLists}

\* A bus on which the partial results have piled up: the first symbol was
\* collected n times, once a second, each time with the same order, and the
\* second symbol once.
PiledUpBus(n) ==
    LET b == BusWith(NoFile, [present |-> TRUE, kind |-> "orders",
                               orders |-> <<OrderB>>])
    IN [k \in DOMAIN b \cup {PartialKey(1, t) : t \in 1..n} |->
          IF k \in DOMAIN b THEN b[k]
          ELSE Blob("orders", FALSE, NoSymbol, <<OrderA>>)]

LegacyResults ==
    {LegacyResult("dict", 1, 200, FALSE, FALSE, NoKey, <<OrderA>>),
     LegacyResult("payload", 2, 200, FALSE, FALSE, NoKey, <<OrderB>>),
     LegacyResult("dict", 2, 200, TRUE, TRUE, PartialKey(1, 1), <<>>),
     LegacyResult("dict", 2, 200, TRUE, FALSE, NoKey, <<>>),
     LegacyResult("dict", 1, 500, FALSE, FALSE, NoKey, <<OrderX>>),
     LegacyResult("nondict", NoSymbol, 0, FALSE, FALSE, NoKey, <<>>),
     LegacyResult("dict", 1, 200, FALSE, FALSE, NoKey, <<OrderBadTime>>),
     LegacyResult("dict", 1, 200, FALSE, FALSE, NoKey, BulkOrders(inline_limit + 1))}

MaxResults == 2

\* The event: collect_from_s3, parallel_results, execution_arn (its last
\* component; "" when the event has none) and whether RESULTS_BUCKET is set.
RCEvent(collect, results, execution_id, bucket) ==
    [collect_from_s3 |-> collect, parallel_results |-> results,
     execution_id |-> execution_id, bucket |-> bucket]

RCInit ==
    /\ \/ /\ rc_event \in {RCEvent(TRUE, <<>>, e, TRUE) : e \in {"", "exec"}}
          /\ bus \in {BusWith(f[1], f[2]) :
                        f \in {g \in RCFiles \X RCFiles :
                                  Len(g[1].orders) + Len(g[2].orders)
                                     <= inline_limit + 2}}
       \/ /\ rc_event = RCEvent(TRUE, <<>>, "exec", TRUE)
          /\ bus \in {BusRetried(BusWith(f[1], f[2]), f[3]) :
                        f \in RetriedFiles \X (RetriedFiles \cup {NoFile})
                                 \X RetriedFiles}
       \/ /\ rc_event = RCEvent(TRUE, <<>>, "exec", FALSE)
          /\ bus = BusWith(NoFile, NoFile)
       \/ /\ rc_event \in {RCEvent(FALSE, r, "exec", TRUE) :
                              r \in SeqsUpTo(LegacyResults, MaxResults)}
          /\ bus \in {BusWith(f1, NoFile) :
                        f1 \in {NoFile,
                                [present |-> TRUE, kind |-> "orders",
                                 orders |-> <<OrderA, OrderX>>]}}
    /\ clock = 1
    /\ rc_combined = NoCombined
    /\ rc_error = "none"
    /\ rc_store = "none"
    /\ rc_response = NoRCResponse
    /\ rc_pc = "start"
    /\ rc_history = <<>>

RCIdle ==
    /\ rc_event = RCEvent(FALSE, <<>>, "", FALSE)
    /\ rc_combined = NoCombined
    /\ rc_error = "none"
    /\ rc_store = "none"
    /\ rc_response = NoRCResponse
    /\ rc_pc = "idle"
    /\ rc_history = <<>>

\* The except branch of lambda_handler: a 500 response.
RCError(why) ==
    /\ rc_error' = why
    /\ rc_response' = RCResponse(500, "Error in result collector lambda", 0, 0, 0,
                                 <<>>, FALSE, FALSE, NoKey)
    /\ rc_pc' = "done"
    /\ UNCHANGED rc_combined

\* Deduplicate, sort (which may raise) and build the combined result.
RCCombine(acc) ==
    LET unique == remove_global_duplicates(acc.all_orders)
    IN IF SortRaises(unique)
       THEN RCError("sort")
       ELSE /\ rc_combined' = Combined(sort_orders(unique), acc.successful,
                                       acc.failed, acc.failed_symbols)
            /\ rc_pc' = "collected"
            /\ UNCHANGED <<rc_error, rc_response>>

\* The sets of files whose download or parsing fails in a run: any files of
\* a short listing; of a long one, none.
MaxFailing == 5
FailingSets(listed) ==
    IF Len(listed) <= MaxFailing
    THEN SUBSET {listed[i] : i \in 1..Len(listed)}
    ELSE {{}}

\* collect_from_s3: collect_results_from_s3().  It raises without a bucket
\* name and when the listing fails; a file that cannot be read or parsed is
\* counted as failed.
RC_CollectFromS3 ==
    /\ rc_pc = "start"
    /\ rc_event.collect_from_s3
    /\ IF ~rc_event.bucket
       THEN RCError("bucket")
       ELSE \E list_ok \in BOOLEAN :
               IF ~list_ok
               THEN RCError("list")
               ELSE LET listed == ListObjectsV2(bus, "symbol_results/")
                    IN \E failing \in FailingSets(listed) :
                          RCCombine(collect_files(listed, 1, bus, failing, NoFiles))
    /\ UNCHANGED <<rc_event, rc_store, rc_history, bus, clock>>
    /\ UNCHANGED not_rc_vars

\* Legacy mode without parallel_results: the answer is given at once.
RC_NoResults ==
    /\ rc_pc = "start"
    /\ ~rc_event.collect_from_s3
    /\ rc_event.parallel_results = <<>>
    /\ rc_response' = RCResponse(200, "No results to process", 0, 0, 0, <<>>,
                                 FALSE, FALSE, NoKey)
    /\ rc_pc' = "done"
    /\ UNCHANGED <<rc_event, rc_combined, rc_error, rc_store, rc_history, bus,
                   clock>>
    /\ UNCHANGED not_rc_vars

\* Legacy mode: combine_and_sort_orders(parallel_results).
RC_CombineLegacy ==
    /\ rc_pc = "start"
    /\ ~rc_event.collect_from_s3
    /\ rc_event.parallel_results # <<>>
    /\ \E failing \in SUBSET {r.s3_key : r \in
             {rc_event.parallel_results[i] :
                 i \in 1..Len(rc_event.parallel_results)} \cap
             {x \in LegacyResults : x.has_ref}} :
          RCCombine(combine_results(rc_event.parallel_results, 1, bus, failing,
                                    NoFiles))
    /\ UNCHANGED <<rc_event, rc_store, rc_history, bus, clock>>
    /\ UNCHANGED not_rc_vars

\* store_result_in_s3 and the response: the put succeeds (with or without a
\* presigned URL) and the summary names the key, or it fails and the
\* response carries the orders inline, cut to inline_limit.
RC_Store ==
    /\ rc_pc = "collected"
    /\ LET execution_id == IF rc_event.execution_id = "" THEN "unknown"
                           ELSE rc_event.execution_id
           s3_key == MergedKey(execution_id, clock)
       IN \E outcome \in {"stored", "stored_no_url", "failed"} :
             /\ rc_store' = outcome
             /\ IF outcome = "failed"
                THEN /\ bus' = bus
                     /\ rc_response' =
                           RCResponse(200, "S3 storage failed, result truncated",
                               rc_combined.total_orders,
                               rc_combined.symbols_processed,
                               rc_combined.symbols_failed,
                               truncated_orders(rc_combined.orders),
                               orders_truncated(rc_combined.orders), TRUE, NoKey)
                ELSE /\ bus' = StoreMerged(bus, s3_key, rc_combined.orders)
                     /\ rc_response' =
                           RCResponse(200, "Orders processed and stored in S3",
                               rc_combined.total_orders,
                               rc_combined.symbols_processed,
                               rc_combined.symbols_failed,
                               <<>>, FALSE, FALSE, s3_key)
    /\ rc_pc' = "done"
    /\ UNCHANGED <<rc_event, rc_combined, rc_error, rc_history, clock>>
    /\ UNCHANGED not_rc_vars

RCNext == RC_CollectFromS3 \/ RC_NoResults \/ RC_CombineLegacy \/ RC_Store

\* The aggregator over a bus with about as many partial results as one
\* listing returns.
RBInit ==
    /\ rc_event = RCEvent(TRUE, <<>>, "exec", TRUE)
    /\ bus \in {PiledUpBus(n) : n \in {list_max_keys - 2, list_max_keys}}
    /\ clock = 1
    /\ rc_combined = NoCombined
    /\ rc_error = "none"
    /\ rc_store = "none"
    /\ rc_response = NoRCResponse
    /\ rc_pc = "start"
    /\ rc_history = <<>>

(***************************************************************************)
(* The aggregator invoked again: the scheduler replays the merge step over *)
(* the bus as the earlier run left it, in the same second or a later one.  *)
(***************************************************************************)
MaxReruns == 1

RC_Rerun ==
    /\ rc_pc = "done"
    /\ Len(rc_history) < MaxReruns
    /\ rc_history' = Append(rc_history,
                         [combined |-> rc_combined, error |-> rc_error,
                          store |-> rc_store, response |-> rc_response])
    /\ rc_combined' = NoCombined
    /\ rc_error' = "none"
    /\ rc_store' = "none"
    /\ rc_response' = NoRCResponse
    /\ rc_pc' = "start"
    /\ \E later \in {0, 1} : clock' = clock + later
    /\ UNCHANGED <<rc_event, bus>>
    /\ UNCHANGED not_rc_vars

\* The runs that are replayed: those of one execution over a bus with at
\* most two partial results, of two orders at most, and the legacy runs over
\* a single result.
RRInit ==
    /\ RCInit
    /\ rc_event.execution_id = "exec"
    /\ Len(rc_event.parallel_results) <= 1
    /\ RetriedKey \notin DOMAIN bus
    /\ \A k \in DOMAIN bus : Len(bus[k].orders) <= 2

RRNext == RCNext \/ RC_Rerun

(***************************************************************************)
(* The collector followed by the aggregator: once the invocation for the   *)
(* symbol has ended, the scheduler invokes the aggregator with             *)
(* collect_from_s3, which reads what the collector left on the bus.        *)
(***************************************************************************)
SC_Aggregate ==
    /\ sp_pc \in {"returned", "raised"}
    /\ rc_pc = "idle"
    /\ rc_event' = RCEvent(TRUE, <<>>, "exec", TRUE)
    /\ rc_pc' = "start"
    /\ UNCHANGED <<rc_combined, rc_error, rc_store, rc_response, rc_history, bus,
                   clock>>
    /\ UNCHANGED not_rc_vars

SCNext == SPNext \/ SC_Aggregate \/ RC_CollectFromS3 \/ RC_Store

(***************************************************************************)
(* Symbol searcher (symbol_searcher/handler.py): lambda_handler and        *)
(* search_symbols_in_window.                                               *)
(*                                                                         *)
(* The exchange adapter follows a script drawn at the start:               *)
(*   total       the pages the exchange holds for the window; page p holds *)
(*               per_page orders, each of a symbol of its own (the symbols *)
(*               (p-1)*per_page+1 .. p*per_page), its endId is p and       *)
(*               nextFlag is p < total; past the last page the order list  *)
(*               is empty;                                                 *)
(*   rl, rl_from every page numbered rl_from or more raises a rate-limit   *)
(*               error rl times before it answers, or on every call when   *)
(*               rl_forever;                                               *)
(*   fault, fault_page  the answer on page fault_page, once the rate       *)
(*               limiting has passed: "other" (an exception that is no     *)
(*               rate-limit error), "empty" (a falsy response) or "none".  *)
(***************************************************************************)
searcher_max_pages == 30
enough_symbols == 60

SSScript(total, per_page, rl, rl_from, rl_forever, fault, fault_page, end_id) ==
    [total |-> total, per_page |-> per_page, rl |-> rl, rl_from |-> rl_from,
     rl_forever |-> rl_forever, fault |-> fault, fault_page |-> fault_page,
     end_id |-> end_id]

MaxWindowPages == 3
MaxRateLimits == 2

\* The calls counted on one page: the count stays at this value from then on.
MaxPageCalls == 3

SSPageSizes == {1, 2, 20, 30}

SSScripts ==
    {SSScript(t, n, r, f, FALSE, "none", 1, e) :
        t \in 0..MaxWindowPages, n \in SSPageSizes, r \in {0, MaxRateLimits},
        f \in 1..2, e \in BOOLEAN}
    \cup {SSScript(t, 1, 0, f, TRUE, "none", 1, TRUE) :
        t \in 1..MaxWindowPages, f \in 1..2}
    \cup {SSScript(t, n, 0, 1, FALSE, k, p, TRUE) :
        t \in 1..MaxWindowPages, n \in {1, 30}, k \in {"other", "empty"},
        p \in 1..2}
    \cup {SSScript(t, n, r, 1, FALSE, "none", 1, e) :
        t \in {searcher_max_pages, searcher_max_pages + 1}, n \in {1, 2},
        r \in {0, 1}, e \in BOOLEAN}

\* The event (has 'start_time' and 'end_time' or not) and the environment
\* (has the three credentials or not).
SSEvent(window, credentials) == [window |-> window, credentials |-> credentials]

\* What the adapter does on the call for the page numbered page after calls
\* earlier calls for that page.
SSAdapterAnswer(script, page, calls) ==
    IF page >= script.rl_from /\ (script.rl_forever \/ calls < script.rl)
    THEN "rate_limit"
    ELSE IF script.fault # "none" /\ page = script.fault_page THEN script.fault
    ELSE "page"

\* The symbols of the orders of the page that follows cursor (lastEndId; 0
\* is ""), its endId (NoEndId when the response has none) and its nextFlag.
NoEndId == 0

SSPageSymbols(script, cursor) ==
    IF cursor < script.total
    THEN (cursor * script.per_page + 1)..((cursor + 1) * script.per_page)
    ELSE {}
SSPageEndId(script, cursor) ==
    IF ~script.end_id THEN NoEndId
    ELSE IF cursor < script.total THEN cursor + 1 ELSE cursor
SSPageNextFlag(script, cursor) == cursor + 1 < script.total

\* The orderId of the last order of the page that follows cursor: the
\* exchange takes it as a cursor like the endId of that page.
SSLastOrderId(script, cursor) == cursor + 1

\* A cursor taken from the endId alone.
NextCursor_end_id_only(end_id, last_order_id) ==
    [token |-> end_id, from |-> "endId"]

\* last_end_id = end_id or order_list[-1].get("orderId", "")
NextCursor(end_id, last_order_id) ==
    IF end_id # NoEndId THEN [token |-> end_id, from |-> "endId"]
    ELSE [token |-> last_order_id, from |-> "orderId"]

\* The response of lambda_handler: statusCode and 'symbols'.
SSResponse(status, found) == [statusCode |-> status, symbols |-> found]
NoSSResponse == SSResponse(NoStatus, {})

\* A handler that reports an aborted search as a failure.
SearchStatus_failing(aborted) == IF aborted THEN 500 ELSE 200

\* 'statusCode': 200, whatever ended the search (search_symbols_in_window
\* returns the set it has and tells nothing else).
SearchStatus(aborted) == 200

SSInit ==
    /\ \/ /\ ss_event = SSEvent(TRUE, TRUE)
          /\ ss_script \in SSScripts
       \/ /\ ss_event \in {SSEvent(FALSE, TRUE), SSEvent(TRUE, FALSE)}
          /\ ss_script = SSScript(0, 1, 0, 1, FALSE, "none", 1, TRUE)
    /\ ss_page = 1
    /\ ss_last_end_id = 0
    /\ ss_symbols = {}
    /\ ss_page_calls = 0
    /\ ss_result = NoSSResponse
    /\ ss_pc = "start"
    /\ ss_fetched = 0
    /\ ss_cursor_from = "none"

SSIdle ==
    /\ ss_event = SSEvent(FALSE, FALSE)
    /\ ss_script = SSScript(0, 1, 0, 1, FALSE, "none", 1, TRUE)
    /\ ss_page = 1
    /\ ss_last_end_id = 0
    /\ ss_symbols = {}
    /\ ss_page_calls = 0
    /\ ss_result = NoSSResponse
    /\ ss_pc = "idle"
    /\ ss_fetched = 0
    /\ ss_cursor_from = "none"

\* lambda_handler up to the search: without start_time or end_time it raises
\* and answers 500 from its except branch, without credentials it answers
\* 500.
SS_Start ==
    /\ ss_pc = "start"
    /\ IF ~ss_event.window \/ ~ss_event.credentials
       THEN /\ ss_result' = SSResponse(500, {})
            /\ ss_pc' = "done"
       ELSE /\ ss_pc' = "searching"
            /\ UNCHANGED ss_result
    /\ UNCHANGED <<ss_event, ss_script, ss_page, ss_last_end_id, ss_symbols,
                   ss_page_calls, ss_fetched, ss_cursor_from>>
    /\ UNCHANGED <<not_ss_vars, env_vars>>

\* search_symbols_in_window returns found and lambda_handler answers.
SSReturn(found, aborted) ==
    /\ ss_result' = SSResponse(SearchStatus(aborted), found)
    /\ ss_pc' = "done"

\* A call that answers: an empty order list ends the search; else the
\* symbols are added, and the search ends with enough_symbols symbols or
\* without nextFlag or after page searcher_max_pages; else the next page.
SS_Page ==
    /\ ss_pc = "searching"
    /\ SSAdapterAnswer(ss_script, ss_page, ss_page_calls) \in {"page", "empty"}
    /\ LET empty == SSAdapterAnswer(ss_script, ss_page, ss_page_calls) = "empty"
           page_symbols == IF empty THEN {}
                           ELSE SSPageSymbols(ss_script, ss_last_end_id)
           next_flag == ~empty /\ SSPageNextFlag(ss_script, ss_last_end_id)
           found == ss_symbols \cup page_symbols
           cursor == NextCursor(SSPageEndId(ss_script, ss_last_end_id),
                                SSLastOrderId(ss_script, ss_last_end_id))
       IN /\ ss_symbols' = found
          /\ ss_fetched' = ss_fetched + 1
          /\ IF \/ page_symbols = {}
                \/ Cardinality(found) >= enough_symbols
                \/ ~next_flag
             THEN /\ SSReturn(found, FALSE)
                  /\ ss_page_calls' = Min(ss_page_calls + 1, MaxPageCalls)
                  /\ UNCHANGED <<ss_page, ss_last_end_id, ss_cursor_from>>
             ELSE /\ ss_last_end_id' = cursor.token
                  /\ ss_cursor_from' = cursor.from
                  /\ ss_page' = ss_page + 1
                  /\ ss_page_calls' = 0
                  /\ IF ss_page + 1 <= searcher_max_pages
                     THEN UNCHANGED <<ss_result, ss_pc>>
                     ELSE SSReturn(found, FALSE)
    /\ UNCHANGED <<ss_event, ss_script>>
    /\ UNCHANGED <<not_ss_vars, env_vars>>

\* The call raises an error whose message holds 'rate' or '429': "continue",
\* the same page is asked for again, however often that happened before.
SS_RateLimited ==
    /\ ss_pc = "searching"
    /\ SSAdapterAnswer(ss_script, ss_page, ss_page_calls) = "rate_limit"
    /\ ss_page_calls' = Min(ss_page_calls + 1, MaxPageCalls)
    /\ UNCHANGED <<ss_event, ss_script, ss_page, ss_last_end_id, ss_symbols,
                   ss_result, ss_pc, ss_fetched, ss_cursor_from>>
    /\ UNCHANGED <<not_ss_vars, env_vars>>

\* The call raises any other error: "break", and the symbols found so far
\* are returned.
SS_OtherError ==
    /\ ss_pc = "searching"
    /\ SSAdapterAnswer(ss_script, ss_page, ss_page_calls) = "other"
    /\ SSReturn(ss_symbols, TRUE)
    /\ ss_page_calls' = Min(ss_page_calls + 1, MaxPageCalls)
    /\ UNCHANGED <<ss_event, ss_script, ss_page, ss_last_end_id, ss_symbols,
                   ss_fetched, ss_cursor_from>>
    /\ UNCHANGED <<not_ss_vars, env_vars>>

SSNext == SS_Start \/ SS_Page \/ SS_RateLimited \/ SS_OtherError

(***************************************************************************)
(* Concurrent writers to the bus: invocations of the symbol processor and  *)
(* of the result collector that the scheduler runs side by side (a Map     *)
(* over the symbols, retries, redeliveries).  Each invocation is taken at  *)
(* its put: store_orders_in_s3 or store_result_in_s3, with the key built   *)
(* from the clock at that moment.  The clock counts seconds, as            *)
(* int(time.time()) does, and several puts can fall into one second.       *)
(***************************************************************************)
MaxWriters == 2
MaxClock == 3

\* An invocation about to write: a collector for a symbol or an aggregator
\* of an execution ("unknown" when the event has no execution_arn).
Writer(kind, symbol, exec) ==
    [kind |-> kind, symbol |-> symbol, exec |-> exec, pc |-> "ready"]

Writers ==
    {Writer("collector", symbol, "") : symbol \in {1, 2}}
    \cup {Writer("aggregator", NoSymbol, exec) : exec \in {"exec", "unknown"}}

\* The key an invocation writes at the time now.
WriterKey(w, now) ==
    IF w.kind = "collector" THEN PartialKey(w.symbol, now)
    ELSE MergedKey(w.exec, now)

WRInit ==
    /\ wr_inv \in [1..MaxWriters -> Writers]
    /\ wr_puts = <<>>
    /\ bus = EmptyBus
    /\ clock = 1

WRIdle ==
    /\ wr_inv = <<>>
    /\ wr_puts = <<>>

\* The put of invocation i; what it writes is its own (order i, created now).
WR_Put(i) ==
    /\ wr_inv[i].pc = "ready"
    /\ LET s3_key == WriterKey(wr_inv[i], clock)
       IN /\ bus' = PutObject(bus, s3_key,
                       Blob("orders", FALSE, NoSymbol, <<Order(i, CtNum(clock))>>))
          /\ wr_puts' = Append(wr_puts, [writer |-> i, key |-> s3_key])
    /\ wr_inv' = [wr_inv EXCEPT ![i].pc = "done"]
    /\ UNCHANGED clock
    /\ UNCHANGED not_wr_vars

WR_PutSome == \E i \in DOMAIN wr_inv : WR_Put(i)

\* A second passes.
WR_Tick ==
    /\ clock < MaxClock
    /\ clock' = clock + 1
    /\ UNCHANGED <<wr_inv, wr_puts, bus>>
    /\ UNCHANGED not_wr_vars

WRNext == WR_PutSome \/ WR_Tick

(***************************************************************************)
(* Specifications.                                                         *)
(***************************************************************************)
InitTM ==
    TMInit /\ DDIdle /\ UNIdle /\ SPIdle /\ RCIdle /\ SSIdle /\ WRIdle /\ EnvIdle
SpecTM == InitTM /\ [][TMNext]_vars

InitDD ==
    DDInit /\ TMIdle /\ UNIdle /\ SPIdle /\ RCIdle /\ SSIdle /\ WRIdle /\ EnvIdle
SpecDD == InitDD /\ [][DDNext]_vars

InitUN ==
    UNInit /\ TMIdle /\ DDIdle /\ SPIdle /\ RCIdle /\ SSIdle /\ WRIdle /\ EnvIdle
SpecUN == InitUN /\ [][UNNext]_vars

InitSP ==
    SPInit /\ TMIdle /\ DDIdle /\ UNIdle /\ RCIdle /\ SSIdle /\ WRIdle /\ EnvIdle
SpecSP == InitSP /\ [][SPNext]_vars

InitRC == RCInit /\ TMIdle /\ DDIdle /\ UNIdle /\ SPIdle /\ SSIdle /\ WRIdle
SpecRC == InitRC /\ [][RCNext]_vars

InitSS ==
    SSInit /\ TMIdle /\ DDIdle /\ UNIdle /\ SPIdle /\ RCIdle /\ WRIdle /\ EnvIdle
SpecSS == InitSS /\ [][SSNext]_vars

\* The searcher keeps running while it can take a step: the runtime executes
\* the handler's loop until it returns.
FairSpecSS == SpecSS /\ WF_vars(SSNext)

\* The two reduce steps, either of them invoked: the unifier over the window
\* results or the aggregator over the partial results.
InitRD == InitUN \/ InitRC
RDNext == UNNext \/ RCNext
SpecRD == InitRD /\ [][RDNext]_vars

InitRB ==
    InitRC \/ (RBInit /\ TMIdle /\ DDIdle /\ UNIdle /\ SPIdle /\ SSIdle /\ WRIdle)
SpecRB == InitRB /\ [][RCNext]_vars

SpecSC == InitSP /\ [][SCNext]_vars

InitRR == RRInit /\ TMIdle /\ DDIdle /\ UNIdle /\ SPIdle /\ SSIdle /\ WRIdle
SpecRR == InitRR /\ [][RRNext]_vars

InitWR == WRInit /\ TMIdle /\ DDIdle /\ UNIdle /\ SPIdle /\ RCIdle /\ SSIdle
SpecWR == InitWR /\ [][WRNext]_vars

(***************************************************************************)
(* Claims.                                                                 *)
(***************************************************************************)

\* The adapter raises a rate-limit error on every call of the invocation.
AlwaysRateLimited ==
    /\ sp_event = SPEvent(1, TRUE)
    /\ sp_script.rl > max_rate_limit_retries
    /\ sp_script.rl_from = 1

\* C1: when the adapter raises a rate-limit error on every call, the
\* collector raises once the retry ceiling of 5 is exhausted on the page: the
\* first call and five retries, each retry after a back-off, and then the
\* error; it never returns an order list and never writes to the bus.  On
\* any page, retries beyond the ceiling mean the invocation has raised and
\* nothing was written.
C1_RaisesAfterRetryCeiling ==
    /\ AlwaysRateLimited /\ sp_pc # "start" =>
          /\ sp_pc \in {"paging", "raised"}
          /\ sp_pc = "paging" =>
                /\ sp_calls <= max_rate_limit_retries
                /\ sp_sleeps = sp_calls
          /\ sp_pc = "raised" =>
                /\ sp_calls = max_rate_limit_retries + 1
                /\ sp_sleeps = max_rate_limit_retries
                /\ page_retries = max_rate_limit_retries + 1
                /\ page_count = 0
          /\ sp_orders = <<>>
          /\ sp_puts = 0
          /\ bus = EmptyBus
    /\ page_retries > max_rate_limit_retries =>
          /\ sp_pc = "raised"
          /\ sp_page_calls = max_rate_limit_retries + 1
          /\ sp_puts = 0
          /\ bus = EmptyBus

\* C1 witness: every call was rate limited and the invocation has raised
\* after its sixth call.
C1_Witness ==
    /\ AlwaysRateLimited
    /\ sp_pc = "raised"
    /\ sp_calls = max_rate_limit_retries + 1
    /\ sp_puts = 0

\* C2: for every now, lookback L > 0 and window size W > 0 the windows the
\* partitioner returns are ordered, contiguous (each starts one past the end
\* of the one before) and non-overlapping, every window but the last has
\* end = start + W - 1, the first window starts at now - L and the last
\* window ends at now.
C2_WindowCoverage ==
    tm_pc = "done" =>
        /\ Len(time_windows) >= 1
        /\ time_windows[1].start_time = end_time - lookback
        /\ time_windows[Len(time_windows)].end_time = end_time
        /\ \A i \in 1..Len(time_windows) :
              time_windows[i].start_time <= time_windows[i].end_time
        /\ \A i \in 1..(Len(time_windows) - 1) :
              /\ time_windows[i + 1].start_time = time_windows[i].end_time + 1
              /\ time_windows[i].end_time =
                    time_windows[i].start_time + window_size_ms - 1

\* The indices of order_list that a first-occurrence-wins deduplication keeps.
KeptIndices(order_list) ==
    {i \in 1..Len(order_list) :
        \/ Falsy(order_list[i].orderId)
        \/ \A j \in 1..(i - 1) : order_list[j].orderId # order_list[i].orderId}

\* s is the subsequence of order_list at the indices in I, in input order.
IsSubsequenceAt(s, order_list, I) ==
    /\ Len(s) = Cardinality(I)
    /\ \A k \in 1..Len(s) :
          \E i \in I : /\ Cardinality({j \in I : j < i}) = k - 1
                       /\ s[k] = order_list[i]

\* C3: remove_global_duplicates returns exactly one order per distinct
\* non-empty orderId, the first occurrence in input order, and every order
\* whose orderId is absent or empty, in the relative order of the input.
C3_DedupFirstOccurrence ==
    dd_pc # "input" /\ dd_pc # "idle" =>
        /\ IsSubsequenceAt(dd_once, dd_in, KeptIndices(dd_in))
        /\ \A id \in {dd_in[i].orderId : i \in 1..Len(dd_in)} :
              ~Falsy(id) =>
                 Cardinality({k \in 1..Len(dd_once) : dd_once[k].orderId = id}) = 1
        /\ Cardinality({k \in 1..Len(dd_once) : Falsy(dd_once[k].orderId)})
              = Cardinality({i \in 1..Len(dd_in) : Falsy(dd_in[i].orderId)})

\* C3 witness: an input with a repeated identifier and two orders without
\* one has been deduplicated, and the duplicate is gone.
C3_Witness ==
    /\ dd_pc = "once"
    /\ Len(dd_in) = 3
    /\ Len(dd_once) = 2
    /\ dd_in[1].orderId = 1 /\ dd_in[3].orderId = 1
    /\ dd_in[1] # dd_in[3]
    /\ Falsy(dd_in[2].orderId)

\* C4: deduplication is idempotent: deduplicating the deduplicated list
\* gives the deduplicated list.
C4_DedupIdempotent ==
    dd_pc = "twice" => dd_twice = dd_once

\* C4 witness: the second pass ran on a list from which the first pass
\* removed two duplicates.
C4_Witness ==
    /\ dd_pc = "twice"
    /\ Len(dd_in) = 3
    /\ Len(dd_once) = 1
    /\ dd_twice = dd_once

\* The identifiers of an order list, in its order.
OrderIds(orders) == [i \in 1..Len(orders) |-> orders[i].orderId]

\* createTime is non-increasing along the list, a missing one counting as 0.
NewestFirst(orders) ==
    \A i, j \in 1..Len(orders) :
        i < j => CreateTimeKey(orders[i]) >= CreateTimeKey(orders[j])

\* The aggregator has merged without an error.
RCMerged == rc_pc \in {"collected", "done"} /\ rc_error = "none"

\* C5: in every merged output of the aggregator, on the bus-collection path
\* and on the legacy parallel_results path, createTime is non-increasing
\* along the order sequence: in the combined result, in the artifact written
\* to the bus and in the orders of an inline response.  The partial files
\* [{a, 100}] and [{b, 200}] merge to [b, a].
C5_MergedNewestFirst ==
    RCMerged =>
       /\ NewestFirst(rc_combined.orders)
       /\ NewestFirst(rc_response.orders)
       /\ rc_store \in {"stored", "stored_no_url"} =>
             /\ rc_response.s3_key \in DOMAIN bus
             /\ bus[rc_response.s3_key].orders = rc_combined.orders
       /\ /\ rc_event.collect_from_s3
          /\ {PartialKey(1, 1), PartialKey(2, 1)} \subseteq DOMAIN bus
          /\ bus[PartialKey(1, 1)].orders = <<OrderA>>
          /\ bus[PartialKey(2, 1)].orders = <<OrderB>>
          /\ rc_combined.symbols_failed = 0
          => OrderIds(rc_combined.orders) = <<OrderB.orderId, OrderA.orderId>>

\* C5 witness: the two partial files of the example were merged and the
\* artifact on the bus holds b before a.
C5_Witness ==
    /\ rc_event.collect_from_s3
    /\ rc_store = "stored"
    /\ PartialKey(1, 1) \in DOMAIN bus
    /\ bus[PartialKey(1, 1)].orders = <<OrderA>>
    /\ PartialKey(2, 1) \in DOMAIN bus
    /\ bus[PartialKey(2, 1)].orders = <<OrderB>>
    /\ OrderIds(bus[rc_response.s3_key].orders) = <<2, 1>>

\* C5 witness on the legacy path: two inline results were merged, the later
\* order first.
C5_WitnessLegacy ==
    /\ ~rc_event.collect_from_s3
    /\ rc_pc = "done"
    /\ rc_combined.symbols_processed = 2
    /\ OrderIds(rc_combined.orders) = <<2, 1>>

\* C6: the global sort never raises on an order whose createTime is missing
\* or unparsable; the merge completes with a merged result, never with an
\* error response.
C6_SortNeverRaises ==
    rc_pc = "done" /\ rc_error \notin {"bucket", "list"} =>
       /\ rc_error = "none"
       /\ rc_response.statusCode = 200

\* The symbols of a sequence.
Range(s) == {s[i] : i \in 1..Len(s)}

\* x ranks above y: more window occurrences, or as many and the smaller name.
Outranks(x, y) ==
    \/ Frequency(symbol_frequency, x) > Frequency(symbol_frequency, y)
    \/ /\ Frequency(symbol_frequency, x) = Frequency(symbol_frequency, y)
       /\ x < y

\* C7: the unifier's output holds no symbol twice and is ordered by
\* non-increasing frequency, and of two adjacent symbols of equal frequency
\* the alphabetically smaller comes first.
C7_FrequencyRanking ==
    un_pc = "done" /\ un_result.statusCode = 200 =>
        LET sym == un_result.symbols
        IN /\ \A i, j \in 1..Len(sym) : i # j => sym[i] # sym[j]
           /\ \A i \in 1..(Len(sym) - 1) :
                 /\ Frequency(symbol_frequency, sym[i])
                       >= Frequency(symbol_frequency, sym[i + 1])
                 /\ Frequency(symbol_frequency, sym[i])
                       = Frequency(symbol_frequency, sym[i + 1])
                    => sym[i] < sym[i + 1]

\* C7 witness: three symbols were ranked, the most frequent first although it
\* is not the smallest name, the other two tied and in alphabetical order.
C7_Witness ==
    /\ un_pc = "done"
    /\ un_result.symbols = <<2, 1, 3>>
    /\ Frequency(symbol_frequency, 2) = 2
    /\ Frequency(symbol_frequency, 1) = 1
    /\ Frequency(symbol_frequency, 3) = 1

\* C8: the output is the prefix of length min(total_unique_symbols, 350) of
\* the ranked list: it never holds more than 350 symbols, no symbol left out
\* ranks above a symbol kept, and truncated is true exactly when the cap
\* removed a symbol (total_unique_symbols > 350).
C8_CapAndTruncated ==
    un_pc = "done" /\ un_result.statusCode = 200 =>
        LET kept == Range(un_result.symbols)
            dropped == all_symbols \ kept
        IN /\ Len(un_result.symbols) <= max_symbols
           /\ Len(un_result.symbols)
                 = Min(un_result.total_unique_symbols, max_symbols)
           /\ un_result.total_unique_symbols = Cardinality(all_symbols)
           /\ kept \subseteq all_symbols
           /\ \A x \in dropped : \A y \in kept : ~Outranks(x, y)
           /\ un_result.truncated <=> (un_result.total_unique_symbols > max_symbols)
           /\ un_result.truncated <=> (dropped # {})

\* C8 witness: 351 symbols were found, 350 are kept and the response says
\* truncated.
C8_Witness ==
    /\ un_pc = "done"
    /\ un_result.total_unique_symbols = max_symbols + 1
    /\ Len(un_result.symbols) = max_symbols
    /\ un_result.truncated

\* C8, the boundary: exactly 350 symbols found, all kept, not truncated.
C8_WitnessAtCap ==
    /\ un_pc = "done"
    /\ un_result.total_unique_symbols = max_symbols
    /\ Len(un_result.symbols) = max_symbols
    /\ ~un_result.truncated

\* C9: when the bus rejects the write of the merged artifact the aggregator
\* does not raise and returns no error status: the response carries the
\* first 50 orders of the merged sequence (all of them when there are no
\* more), total_orders reports the full merged count, s3_fallback_failed is
\* true, and orders_truncated is true exactly when the merged sequence has
\* more than 50 orders.
C9_InlineFallback ==
    rc_store = "failed" =>
       /\ rc_pc = "done"
       /\ rc_error = "none"
       /\ rc_response.statusCode = 200
       /\ Len(rc_response.orders) = Min(Len(rc_combined.orders), inline_limit)
       /\ rc_response.orders = SubSeq(rc_combined.orders, 1, Len(rc_response.orders))
       /\ rc_response.total_orders = Len(rc_combined.orders)
       /\ rc_response.s3_fallback_failed
       /\ rc_response.orders_truncated = (Len(rc_combined.orders) > inline_limit)
       /\ rc_response.s3_key = NoKey
       /\ \A k \in DOMAIN bus : k.prefix = "results/" => k = OldMergedKey

\* C9 witness: the write of 51 merged orders was rejected; the response
\* holds 50 of them and says it is truncated.
C9_Witness ==
    /\ rc_store = "failed"
    /\ rc_response.total_orders = inline_limit + 1
    /\ Len(rc_response.orders) = inline_limit
    /\ rc_response.orders_truncated

\* C9 as stated: whenever the write is rejected the truncated flag is true.
C9_TruncatedFlagAlwaysTrue ==
    rc_store = "failed" =>
       /\ rc_response.statusCode = 200
       /\ Len(rc_response.orders) <= inline_limit
       /\ rc_response.total_orders = Len(rc_combined.orders)
       /\ rc_response.orders_truncated

\* C10: every bus key a step of the aggregator removes lies under
\* symbol_results/; no key under results/ or any other prefix is ever
\* removed, whatever mix of keys the bus holds.
C10_DeletesOnlyPartialResults ==
    [][\A k \in DOMAIN bus :
          k \notin DOMAIN bus' => k.prefix = "symbol_results/"]_vars

\* C10 witness: the aggregator ran to its end on a bus holding partial
\* results, an earlier merged artifact and a blob under another prefix, and
\* wrote its artifact; the earlier artifact and the other blob are still
\* there.
C10_Witness ==
    /\ rc_pc = "done"
    /\ rc_store = "stored"
    /\ rc_combined.symbols_processed = 2
    /\ {OldMergedKey, OtherKey, PartialKey(1, 1), PartialKey(2, 1)}
          \subseteq DOMAIN bus
    /\ rc_response.s3_key \in DOMAIN bus

\* The invocation has a symbol and credentials, so that it calls the adapter.
SPCallsAdapter == sp_event = SPEvent(1, TRUE)

\* The collection has ended by returning a list.
SPReturned == sp_pc \in {"collected", "returned"}

DelistedFaults == {"delisted", "rate_and_delisted"}

\* C11: when the adapter raises a delisted error ('40309' or 'removed' in
\* the message) on any page, the collector returns an empty order list
\* whatever it fetched before, the invocation completes without raising, and
\* nothing is written to the bus.
C11_DelistedIsEmptyResult ==
    /\ /\ SPCallsAdapter
       /\ SPReturned
       /\ AdapterAnswer(sp_script, page_count + 1, page_retries) \in DelistedFaults
       => /\ sp_orders = <<>>
          /\ sp_puts = 0
          /\ bus = EmptyBus
    /\ /\ sp_script.fault \in DelistedFaults
       /\ sp_script.rl <= max_rate_limit_retries
       => sp_pc # "raised"

\* C11 witness: the second page answered with the delisted error after the
\* first page had delivered an order; the invocation returned, with no order
\* and no put.
C11_Witness ==
    /\ SPCallsAdapter
    /\ sp_script.fault \in DelistedFaults
    /\ sp_pc = "returned"
    /\ page_count = 1
    /\ all_orders # <<>>
    /\ sp_orders = <<>>
    /\ sp_puts = 0

\* C12: an invocation issues exactly one put, to
\* symbol_results/{symbol}_{ts}.json with the collected orders as body, when
\* the pagination returned at least one order, and no put when it returned no
\* order, when the symbol or the credentials are missing, or when it raised.
C12_OnePutIffOrders ==
    /\ sp_pc = "returned" => sp_puts = (IF sp_orders # <<>> THEN 1 ELSE 0)
    /\ sp_pc \in {"start", "paging", "collected", "raised"} => sp_puts = 0
    /\ ~SPCallsAdapter => sp_puts = 0 /\ sp_calls = 0
    /\ \A k \in DOMAIN bus :
          /\ sp_puts = 1
          /\ k = PartialKey(sp_event.symbol, clock)
          /\ bus[k] = Blob("orders", FALSE, NoSymbol, sp_orders)

\* C12 witness: three pages were collected and stored under the key of the
\* symbol.
C12_Witness ==
    /\ sp_pc = "returned"
    /\ sp_puts = 1
    /\ PartialKey(1, clock) \in DOMAIN bus
    /\ Len(bus[PartialKey(1, clock)].orders) = 3

\* C12 witness without orders: the exchange held nothing, and nothing was put.
C12_WitnessNoOrders ==
    /\ SPCallsAdapter
    /\ sp_pc = "returned"
    /\ sp_calls = 1
    /\ sp_orders = <<>>
    /\ sp_puts = 0

\* The adapter signals more pages on every page the collector asks for, and
\* no call fails for good.
NeverComplete ==
    /\ SPCallsAdapter
    /\ sp_script.total > max_pages
    /\ sp_script.fault = "none"
    /\ sp_script.rl <= max_rate_limit_retries

\* C13: when the adapter signals more pages on every page, the collector
\* stops after max_pages = 300 pages and returns the orders of those pages
\* without raising.
C13_PageCeiling ==
    NeverComplete =>
       /\ page_count <= max_pages
       /\ sp_pc # "raised"
       /\ SPReturned =>
             /\ page_count = max_pages
             /\ sp_orders = all_orders
             /\ Len(sp_orders) = max_pages
             /\ sp_calls = max_pages * (1 + sp_script.rl)

\* C13 witness: 300 pages were fetched, each after five rate-limit errors;
\* the 300 orders were returned and stored.
C13_Witness ==
    /\ NeverComplete
    /\ sp_script.rl = max_rate_limit_retries
    /\ sp_pc = "returned"
    /\ Len(sp_orders) = max_pages
    /\ sp_puts = 1

\* The adapter serves the sp_script.total pages of the symbol (one empty
\* page when there is none), at most 300, and no call fails for good.
ServesAllPages ==
    /\ SPCallsAdapter
    /\ sp_script.total <= max_pages
    /\ sp_script.fault = "none"
    /\ sp_script.rl <= max_rate_limit_retries

\* The calls of a complete collection: one per page and sp_script.rl more
\* for every page from sp_script.rl_from on.
ExpectedCalls ==
    LET pages == IF sp_script.total = 0 THEN 1 ELSE sp_script.total
        limited == IF pages >= sp_script.rl_from
                   THEN pages - sp_script.rl_from + 1 ELSE 0
    IN pages + sp_script.rl * limited

\* C14: when the adapter serves k <= 300 pages and fewer than 6 rate-limit
\* errors in a row on any page, the collector returns the orders of pages
\* 1..k in page order, none skipped and none twice.
C14_AllPagesInOrder ==
    ServesAllPages /\ SPReturned =>
       /\ Len(sp_orders) = sp_script.total
       /\ \A p \in 1..sp_script.total : sp_orders[p] = Order(p, CtNum(p))
       /\ sp_calls = ExpectedCalls

\* C14 witness: three pages, each after five rate-limit errors, were
\* returned in order.
C14_Witness ==
    /\ ServesAllPages
    /\ sp_script.total = 3
    /\ sp_script.rl = max_rate_limit_retries
    /\ sp_script.rl_from = 1
    /\ sp_pc = "returned"
    /\ sp_calls = 18
    /\ Len(sp_orders) = 3

\* C14 witness at the ceiling: exactly 300 pages, all returned.
C14_WitnessAtCeiling ==
    /\ ServesAllPages
    /\ sp_script.total = max_pages
    /\ sp_pc = "returned"
    /\ Len(sp_orders) = max_pages

\* C15: an error that is neither a rate-limit nor a delisted error, and a
\* malformed response (empty, or without 'data'), abort the symbol at once:
\* the invocation raises, no further call is made and nothing is written.
C15_FatalAborts ==
    /\ /\ SPCallsAdapter
       /\ sp_script.fault = "other"
       /\ sp_pc \notin {"start", "paging"}
       /\ AdapterAnswer(sp_script, page_count + 1, page_retries) = "other"
       => sp_pc = "raised" /\ sp_puts = 0 /\ bus = EmptyBus
    /\ /\ SPCallsAdapter
       /\ sp_script.fault \in {"empty", "nodata"}
       /\ page_count >= sp_script.fault_page
       => sp_pc = "raised" /\ sp_puts = 0 /\ bus = EmptyBus

\* C16: when an error that is no rate-limit error occurs on some page of a
\* window search, the searcher makes no further call and its output carries
\* the symbols of the pages fetched before together with a failure status,
\* so that the unifier counts the window as failed.
C16_OtherErrorIsFailure ==
    /\ ss_pc = "done"
    /\ ss_script.fault = "other"
    /\ ss_page = ss_script.fault_page
    => /\ ss_result.symbols = ss_symbols
       /\ ss_result.statusCode # 200
       /\ StatusOf(ss_result) # 200

\* C17: every searcher invocation terminates, whatever the adapter does,
\* also when it raises a rate-limit error on every call.
C17_SearcherTerminates == <>(ss_pc = "done")

\* C18: no two writes to the bus target the same key, for any interleaving
\* of collector invocations (two for one symbol included) and aggregator
\* invocations: no artifact is overwritten.
C18_UniqueKeys ==
    /\ \A i, j \in 1..Len(wr_puts) :
          i # j => wr_puts[i].key # wr_puts[j].key
    /\ Cardinality(DOMAIN bus) = Len(wr_puts)

\* The identifiers of the orders of the readable partial results on the bus.
TruthyIds(orders) ==
    {orders[i].orderId : i \in {j \in 1..Len(orders) : ~Falsy(orders[j].orderId)}}
PartialIds ==
    UNION {TruthyIds(bus[k].orders) :
             k \in {q \in DOMAIN bus : /\ q.prefix = "symbol_results/"
                                       /\ q.json
                                       /\ bus[q].kind = "orders"}}
Copies(orders, order_id) ==
    Cardinality({i \in 1..Len(orders) : orders[i].orderId = order_id})

\* C19: when re-invocations of the collector have left several partial
\* results holding the same order, the merged output of an aggregator run
\* holds exactly one order per non-empty orderId: none twice, and every
\* identifier of the files that were read once (in the result and in the
\* artifact that was stored).
C19_OneOrderPerId ==
    RCMerged /\ rc_event.collect_from_s3 =>
       /\ \A id \in TruthyIds(rc_combined.orders) :
             Copies(rc_combined.orders, id) = 1
       /\ TruthyIds(rc_combined.orders) \subseteq PartialIds
       /\ rc_combined.symbols_failed = 0 =>
             \A id \in PartialIds : Copies(rc_combined.orders, id) = 1
       /\ rc_store \in {"stored", "stored_no_url"} =>
             \A id \in TruthyIds(rc_combined.orders) :
                Copies(bus[rc_response.s3_key].orders, id) = 1

\* C19 witness: the first symbol was collected twice, both partial results
\* and the one of the second symbol hold order 1, all three were read, and
\* the stored artifact holds it once.
C19_Witness ==
    /\ rc_event.collect_from_s3
    /\ rc_store = "stored"
    /\ rc_combined.symbols_failed = 0
    /\ {PartialKey(1, 1), RetriedKey, PartialKey(2, 1)} \subseteq DOMAIN bus
    /\ bus[PartialKey(1, 1)].orders = <<OrderX, OrderA>>
    /\ bus[RetriedKey].orders = <<OrderA>>
    /\ bus[PartialKey(2, 1)].orders = <<OrderA, OrderB>>
    /\ Copies(bus[rc_response.s3_key].orders, OrderA.orderId) = 1
    /\ Len(bus[rc_response.s3_key].orders) = 3

\* A window result that counts: an object (or one under 'Payload') with
\* status 200 whose symbols can be iterated.
WindowSucceeded(result) ==
    /\ result.shape \in {"dict", "payload"}
    /\ StatusOf(result) = 200
    /\ ~result.symbols_null
SucceededWindows(results) ==
    {i \in 1..Len(results) : WindowSucceeded(results[i])}

\* How often the succeeded windows among results[1..i] list the symbol x.
RECURSIVE SucceededCount(_, _, _)
SucceededCount(results, i, x) ==
    IF i = 0 THEN 0
    ELSE SucceededCount(results, i - 1, x)
         + (IF WindowSucceeded(results[i])
            THEN Occurrences(results[i].symbols, x) ELSE 0)

\* C20: the unifier does not abort on failed windows.  Once it has answered
\* for a list of window results, the status is success, every window that
\* did not succeed or could not be processed is recorded as failed, and the
\* symbols and frequencies are those of the succeeded windows alone.
C20_FailedWindowsRecorded ==
    un_pc = "done" /\ un_event.kind # "invalid" =>
       LET failed == (1..Len(window_results)) \ SucceededWindows(window_results)
       IN /\ un_result.statusCode = 200
          /\ failed_windows = Cardinality(failed)
          /\ un_result.failed_windows = Cardinality(failed)
          /\ all_symbols =
                UNION {{window_results[i].symbols[k] :
                          k \in DOMAIN window_results[i].symbols} :
                       i \in SucceededWindows(window_results)}
          /\ \A x \in all_symbols :
                Frequency(symbol_frequency, x)
                   = SucceededCount(window_results, Len(window_results), x)

\* The same with the windows that are no objects left out of the count of
\* the failed: what the loop does with them.
C20_ObjectWindowsRecorded ==
    un_pc = "done" /\ un_event.kind # "invalid" =>
       LET failed == {i \in 1..Len(window_results) :
                         /\ ~WindowSucceeded(window_results[i])
                         /\ window_results[i].shape # "nondict"}
           also == {i \in 1..Len(window_results) :
                         /\ window_results[i].shape \in {"dict", "payload"}
                         /\ StatusOf(window_results[i]) = 200}
       IN /\ un_result.statusCode = 200
          /\ failed_windows = Cardinality(failed)
          /\ successful_windows = Cardinality(also)
          /\ all_symbols =
                UNION {{window_results[i].symbols[k] :
                          k \in DOMAIN window_results[i].symbols} :
                       i \in SucceededWindows(window_results)}
          /\ \A x \in all_symbols :
                Frequency(symbol_frequency, x)
                   = SucceededCount(window_results, Len(window_results), x)

\* The arrangements of n things, and a sequence rearranged by one of them.
Arrangements(n) ==
    {p \in [1..n -> 1..n] : \A i, j \in 1..n : i # j => p[i] # p[j]}
Rearranged(seq, p) == [i \in 1..Len(seq) |-> seq[p[i]]]

\* Every order of the partial results on the bus has a createTime that the
\* sort key can convert.
PartialTimesParsable ==
    \A k \in {q \in DOMAIN bus : q.prefix = "symbol_results/" /\ q.json} :
       ~SortRaises(bus[k].orders)

\* The merged orders for a listing read in the given order, the files named
\* in failed failing to download.
MergedFrom(listed, failed) ==
    sort_orders(remove_global_duplicates(
        collect_files(listed, 1, bus, failed, NoFiles).all_orders))

\* C21: the reduce steps tolerate arbitrary arrival order.  The symbols the
\* unifier answers are those it answers for every rearrangement of the
\* window results; and the merged output of the aggregator has, for every
\* rearrangement of the listing of the partial results (orders with
\* createTime values the sort accepts, the same files failing), the same set
\* of order identifiers and is sorted newest first.
C21_ArrivalOrderTolerated ==
    /\ un_pc = "done" /\ un_event.kind # "invalid" =>
          \A p \in Arrangements(Len(window_results)) :
             unified_symbols(Rearranged(window_results, p)) = un_result.symbols
    /\ RCMerged /\ rc_event.collect_from_s3 /\ PartialTimesParsable =>
          LET listed == ListObjectsV2(bus, "symbol_results/")
              failed == Range(rc_combined.failed_symbols)
          IN \A p \in Arrangements(Len(listed)) :
                LET merged == MergedFrom(Rearranged(listed, p), failed)
                IN /\ TruthyIds(merged) = TruthyIds(rc_combined.orders)
                   /\ Len(merged) = Len(rc_combined.orders)
                   /\ NewestFirst(merged)
                   /\ NewestFirst(rc_combined.orders)

\* C21 witness (unifier): two windows with different symbol lists, the one
\* that came second holding the symbol that ranks first.
C21_Witness ==
    /\ un_pc = "done"
    /\ Len(window_results) = 2
    /\ window_results[1].symbols = <<1>>
    /\ window_results[2].symbols = <<3, 2>>
    /\ WindowSucceeded(window_results[1])
    /\ WindowSucceeded(window_results[2])
    /\ un_result.symbols = <<1, 2, 3>>

\* C21 witness (aggregator): three partial results were merged, the newest
\* order in the file listed last.
C21_WitnessMerge ==
    /\ RCMerged
    /\ rc_event.collect_from_s3
    /\ rc_combined.symbols_failed = 0
    /\ {PartialKey(1, 1), RetriedKey, PartialKey(2, 1)} \subseteq DOMAIN bus
    /\ bus[PartialKey(1, 1)].orders = <<OrderX, OrderA>>
    /\ bus[RetriedKey].orders = <<OrderA2>>
    /\ bus[PartialKey(2, 1)].orders = <<OrderA, OrderB>>
    /\ OrderIds(rc_combined.orders) = <<2, 1, 3>>

\* The aggregator has collected from the bus before and this run read the
\* files that one read.
Replayed ==
    /\ rc_history # <<>>
    /\ rc_event.collect_from_s3
    /\ RCMerged
    /\ rc_history[1].error = "none"
    /\ Range(rc_history[1].combined.failed_symbols)
          = Range(rc_combined.failed_symbols)

\* C22: the merge step is idempotent and replayable.  A second run of the
\* aggregator over the same partial results gives the merged order sequence
\* of the first, and no step of the first run changes or removes an object
\* that was on the bus before it (the partial results, an earlier merged
\* artifact).
C22_IdempotentReplay ==
    /\ [](Replayed => rc_combined.orders = rc_history[1].combined.orders)
    /\ [][rc_history = <<>> =>
             \A k \in DOMAIN bus : k \in DOMAIN bus' /\ bus'[k] = bus[k]]_vars

\* C22 witness: both runs merged two partial results and stored the result,
\* the second a second later; the two artifacts hold the same sequence and
\* the partial results are still there.
C22_Witness ==
    /\ Replayed
    /\ rc_pc = "done"
    /\ rc_store = "stored"
    /\ rc_history[1].store = "stored"
    /\ rc_history[1].response.s3_key # rc_response.s3_key
    /\ {rc_history[1].response.s3_key, rc_response.s3_key, OldMergedKey,
        PartialKey(1, 1), PartialKey(2, 1)} \subseteq DOMAIN bus
    /\ bus[PartialKey(1, 1)].orders = <<OrderNoId, OrderEmptyId>>
    /\ bus[PartialKey(2, 1)].orders = <<OrderA, OrderB>>
    /\ Len(rc_combined.orders) = 4
    /\ bus[rc_response.s3_key].orders = bus[rc_history[1].response.s3_key].orders

\* The orders of the readable partial results that have no identifier.
Unkeyed(orders) == Cardinality({i \in 1..Len(orders) : Falsy(orders[i].orderId)})

\* C23: the aggregator merges all partial results present on the bus.  When
\* no file failed, every identifier of every partial result under
\* symbol_results/ is in the merged output, however many keys there are
\* under the prefix.
C23_MergesEveryPartial ==
    /\ RCMerged
    /\ rc_event.collect_from_s3
    /\ rc_combined.symbols_failed = 0
    => PartialIds \subseteq TruthyIds(rc_combined.orders)

\* The symbols of the partial results that hold the order.
SourceSymbols(order) ==
    {k.symbol : k \in {q \in DOMAIN bus :
        /\ q.prefix = "symbol_results/"
        /\ q.json
        /\ bus[q].kind = "orders"
        /\ \E j \in 1..Len(bus[q].orders) :
              /\ bus[q].orders[j].orderId = order.orderId
              /\ bus[q].orders[j].createTime = order.createTime}}

\* C24: every order of the merged output that came from the partial result
\* the collector wrote for a symbol is tagged with that symbol as its
\* processing_symbol.
C24_TaggedWithSourceSymbol ==
    RCMerged /\ rc_event.collect_from_s3 =>
       \A i \in 1..Len(rc_combined.orders) :
          rc_combined.orders[i].processing_symbol
             \in SourceSymbols(rc_combined.orders[i])

\* The keys of the partial results on the bus, and those of them the run
\* could not read.
PartialKeys == {q \in DOMAIN bus : q.prefix = "symbol_results/" /\ q.json}
FailedKeys == Range(rc_combined.failed_symbols)

\* C25: a partial result that cannot be downloaded or parsed is skipped and
\* recorded as failed, and the merge completes with every order of the
\* other partial results: the files that failed never make the run an error.
C25_BadFileSkipped ==
    /\ /\ rc_pc \in {"collected", "done"}
       /\ rc_event.collect_from_s3
       /\ rc_error \notin {"bucket", "list"}
       /\ PartialTimesParsable
       => rc_error = "none"
    /\ RCMerged /\ rc_event.collect_from_s3 =>
          /\ FailedKeys \subseteq PartialKeys
          /\ {k \in PartialKeys : bus[k].kind # "orders"} \subseteq FailedKeys
          /\ rc_combined.symbols_failed = Cardinality(FailedKeys)
          /\ rc_combined.symbols_processed = Cardinality(PartialKeys \ FailedKeys)
          /\ \A k \in PartialKeys \ FailedKeys :
                TruthyIds(bus[k].orders) \subseteq TruthyIds(rc_combined.orders)
          /\ rc_pc = "done" => rc_response.statusCode = 200

\* C25 witness: of three partial results one could not be downloaded; the
\* run answered 200 with the orders of the other two.
C25_Witness ==
    /\ RCMerged
    /\ rc_pc = "done"
    /\ rc_event.collect_from_s3
    /\ {PartialKey(1, 1), RetriedKey, PartialKey(2, 1)} \subseteq DOMAIN bus
    /\ bus[PartialKey(1, 1)].orders = <<OrderX, OrderA>>
    /\ bus[RetriedKey].orders = <<OrderA2>>
    /\ bus[PartialKey(2, 1)].orders = <<OrderA, OrderB>>
    /\ FailedKeys = {RetriedKey}
    /\ rc_response.statusCode = 200
    /\ OrderIds(rc_combined.orders) = <<2, 1, 3>>

\* C25 witness: a partial result that is no JSON, next to a good one.
C25_WitnessGarbage ==
    /\ RCMerged
    /\ rc_pc = "done"
    /\ rc_event.collect_from_s3
    /\ {PartialKey(1, 1), PartialKey(2, 1)} \subseteq DOMAIN bus
    /\ bus[PartialKey(1, 1)].orders = <<OrderA, OrderB>>
    /\ bus[PartialKey(2, 1)].kind = "garbage"
    /\ FailedKeys = {PartialKey(2, 1)}
    /\ OrderIds(rc_combined.orders) = <<2, 1>>

\* The pages it takes to see enough_symbols symbols, and the number of calls
\* that a search over the script's window gets answered: up to an empty
\* page, the last page, the page ceiling or enough symbols, whichever is
\* first.
PagesForEnough(per_page) == (enough_symbols + per_page - 1) \div per_page
PagesUntilStop(script) ==
    Min(Min(script.total, searcher_max_pages), PagesForEnough(script.per_page))
EmptyPageHit(script) ==
    script.fault = "empty" /\ script.fault_page <= PagesUntilStop(script)
AnsweredWithOrders(script) ==
    IF EmptyPageHit(script) THEN script.fault_page - 1
    ELSE PagesUntilStop(script)
ExpectedFetches(script) ==
    IF script.total = 0 THEN 1
    ELSE IF EmptyPageHit(script) THEN script.fault_page
    ELSE PagesUntilStop(script)

\* C26: a window search gets at most searcher_max_pages calls answered and
\* stops at the first of: a page without orders, a page without nextFlag, the
\* page ceiling, enough_symbols distinct symbols.  What it returns is the set
\* of the symbols of the orders of the pages fetched up to there, and each
\* further request carries the cursor of the page before it: its endId when
\* the response has one, else the orderId of its last order.
C26_SearchStopsAndCursor ==
    /\ ss_fetched <= searcher_max_pages
    /\ /\ ss_pc = "done"
       /\ ss_event.window /\ ss_event.credentials
       /\ ss_script.fault \in {"none", "empty"}
       => /\ ss_fetched = ExpectedFetches(ss_script)
          /\ ss_result.symbols =
                1..(ss_script.per_page * AnsweredWithOrders(ss_script))
    /\ ss_pc = "searching" /\ ss_script.fault \in {"none", "empty"} =>
          /\ ss_last_end_id = ss_fetched
          /\ ss_page = ss_fetched + 1
          /\ ss_symbols = 1..(ss_script.per_page * ss_fetched)
          /\ ss_fetched > 0 =>
                ss_cursor_from = IF ss_script.end_id THEN "endId" ELSE "orderId"

\* C26 witness: the search stopped at the page ceiling, the exchange having a
\* page more and sending no endId.
C26_Witness ==
    /\ ss_pc = "done"
    /\ ss_script.total = searcher_max_pages + 1
    /\ ss_script.per_page = 1
    /\ ~ss_script.end_id
    /\ ss_fetched = searcher_max_pages
    /\ ss_cursor_from = "orderId"
    /\ ss_result.symbols = 1..searcher_max_pages

\* C26 witness: the search stopped with enough_symbols symbols on the second
\* of three pages.
C26_WitnessEnough ==
    /\ ss_pc = "done"
    /\ ss_script.total = 3
    /\ ss_script.per_page = 30
    /\ ss_script.fault = "none"
    /\ ss_fetched = 2
    /\ ss_cursor_from = "endId"
    /\ ss_result.symbols = 1..enough_symbols

\* C26 witness: the search stopped at a page without orders.
C26_WitnessEmpty ==
    /\ ss_pc = "done"
    /\ ss_script.total = 3
    /\ ss_script.fault = "empty"
    /\ ss_script.fault_page = 2
    /\ ss_fetched = 2
    /\ ss_result.symbols = 1..ss_script.per_page

\* The adapter call of the step about to be taken returns a page.
AnswersPage == AdapterAnswer(sp_script, page_count + 1, page_retries) = "page"

\* The most adapter calls one page may take: the first and the retries.
CallsPerPage == 1 + max_rate_limit_retries

\* C27: the collector's rate-limit budget is per page.  A step that retries
\* (page_retries grows) leaves the cursor and the page number where they
\* were; the cursor moves only in a step whose call returns a page; a step
\* to a new page leaves page_retries at 0; every step of the paging loop is
\* one adapter call; no page takes more than 1 + 5 calls (while the loop
\* runs at most 5 were made on the current page, all of them rate-limited);
\* and the calls of an invocation never exceed 6 per page begun, hence
\* never 300 x 6.
C27_RetryBudgetPerPage ==
    /\ [](/\ page_retries <= CallsPerPage
          /\ sp_page_calls <= CallsPerPage
          /\ page_count <= max_pages
          /\ sp_pc = "paging" =>
                /\ page_retries <= max_rate_limit_retries
                /\ sp_page_calls = page_retries
                /\ page_count < max_pages
          /\ sp_calls <= page_count * CallsPerPage + sp_page_calls
          /\ sp_calls <= max_pages * CallsPerPage)
    /\ [][/\ page_retries' > page_retries =>
                /\ last_end_id' = last_end_id
                /\ page_count' = page_count
                /\ page_retries' = page_retries + 1
          /\ last_end_id' # last_end_id => sp_pc = "paging" /\ AnswersPage
          /\ page_count' # page_count =>
                /\ page_count' = page_count + 1
                /\ page_retries' = 0
          /\ sp_pc = "paging" => sp_calls' = sp_calls + 1
          /\ sp_pc # "paging" => sp_calls' = sp_calls]_vars

\* C27 witness: the second page is reached with the cursor on it and a fresh
\* retry count, after the first page took its six calls (five rate-limit
\* errors and the page).
C27_Witness ==
    /\ SPCallsAdapter
    /\ sp_script.rl = max_rate_limit_retries
    /\ sp_pc = "paging"
    /\ page_count = 1
    /\ last_end_id = 1
    /\ page_retries = 0
    /\ sp_calls = CallsPerPage

\* C27 witness for the whole invocation: 300 pages of six calls each.
C27_WitnessAllCalls ==
    /\ SPCallsAdapter
    /\ sp_pc = "returned"
    /\ sp_calls = max_pages * CallsPerPage

\* C28: once a collector invocation that collected at least one order has
\* returned to the scheduler without raising, the bus holds the blob of those
\* orders under symbol_results/{symbol}_{ts}.json.
C28_ReturnedMeansStored ==
    SPCallsAdapter /\ sp_pc = "returned" /\ sp_orders # <<>> =>
       /\ PartialKey(sp_event.symbol, clock) \in DOMAIN bus
       /\ bus[PartialKey(sp_event.symbol, clock)].orders = sp_orders

\* C29: once the unifier has answered for a list of window results, every
\* result was counted exactly once: successful_windows + failed_windows is
\* the number of results, in the handler's counters and in its answer.
C29_EachWindowCountedOnce ==
    un_pc = "done" /\ un_event.kind # "invalid" =>
       /\ successful_windows + failed_windows = Len(window_results)
       /\ un_result.successful_windows + un_result.failed_windows
             = Len(window_results)

\* The windows with status 200 (those successful_windows counts) whose list
\* holds the symbol x.
WindowsListing(results, x) ==
    {i \in 1..Len(results) :
        /\ results[i].shape \in {"dict", "payload"}
        /\ StatusOf(results[i]) = 200
        /\ ~results[i].symbols_null
        /\ Occurrences(results[i].symbols, x) > 0}

\* C30: the frequency the unifier ranks a symbol by is the number of
\* successful windows whose list holds the symbol, and so never more than
\* successful_windows.
C30_FrequencyCountsWindows ==
    un_pc = "done" /\ un_event.kind # "invalid" =>
       \A x \in all_symbols :
          /\ Frequency(symbol_frequency, x)
                = Cardinality(WindowsListing(window_results, x))
          /\ Frequency(symbol_frequency, x) <= successful_windows

\* No window result lists a symbol twice.
WindowsAreSets ==
    \A i \in 1..Len(un_event.results) :
       \A x \in 1..NumSymbols : Occurrences(un_event.results[i].symbols, x) <= 1

\* The same for window results that list no symbol twice.
C30_FrequencyOfSets == WindowsAreSets => C30_FrequencyCountsWindows

====
